---- MODULE Spec2Model ----
(***************************************************************************)
(* A model of the crawl-and-classify pipeline of city-gig-scraper.         *)
(*                                                                         *)
(* Part I  (specification Spec): AsyncCrawler.fetch and RobotsCache        *)
(*   (src/job_scraper/crawler.py, src/job_scraper/robots.py).  Each task   *)
(*   is one call of fetch(); an action is the code that runs between two   *)
(*   suspension points (await) of the coroutine.                           *)
(*   Time is counted in ticks of 0.2 s.  The code only ever uses           *)
(*   time.monotonic() in the difference now - _host_last_request_ts[host], *)
(*   compared with the minimum interval, so the model keeps that           *)
(*   difference (an age, saturating at MinInterval) instead of the two     *)
(*   absolute readings.  asyncio.sleep(d) resumes the task d ticks later   *)
(*   or, the event loop being busy, any time after that.                   *)
(* Part II (specification SpecPlace): _process_place                       *)
(*   (src/job_scraper/main.py), one venue's pipeline over an abstract      *)
(*   fetcher that returns the FetchResults the crawler can return.         *)
(* Part III (specification SpecRun): a run over several venues, by the     *)
(*   command line (_scrape_places and main, src/job_scraper/main.py) or by *)
(*   the web application (_run_job_sync, _execute_job and cancel,          *)
(*   src/web/app.py); specification SpecPool is the web job alone, with    *)
(*   its thread and event loop running on.                                 *)
(* Part IV (specification SpecCall): the functions without state, each     *)
(*   called once on an argument of a bounded set: _sanitize_url,           *)
(*   _canonicalize_url, detect_hiring_signals, _deduplicate_by_job_page.   *)
(***************************************************************************)
EXTENDS Integers, Sequences, FiniteSets, TLC

NULL == "null"

Min(a, b) == IF a < b THEN a ELSE b
Max(a, b) == IF a > b THEN a ELSE b

(***************************************************************************)
(* Bounds of the model.                                                    *)
(***************************************************************************)
NumTasks == 2          \* concurrent fetch() calls
NumHostTasks == 3      \* concurrent fetch() calls to one host, in SpecHost
MaxConcurrency == 3    \* the configured concurrency ranges over 1..MaxConcurrency
MaxAttemptsCfg == 2    \* the configured max_attempts ranges over 0..MaxAttemptsCfg
MaxFaults == 2         \* transport errors and 429 answers the network produces in all

(***************************************************************************)
(* Program constants, in ticks of 0.2 s where they are durations.          *)
(***************************************************************************)
HostPermits == 2       \* asyncio.Semaphore(2) per host
MinInterval == 5       \* _host_min_interval_s = 1.0
JitterMin == 1         \* request_jitter = (0.2, 0.8)
JitterMax == 4
BackoffStep == 10      \* 2.0 * attempt
BackoffCap == 30       \* min(.., 6.0)

Tasks == 1..NumTasks
HostTasks == 1..NumHostTasks
\* one call more than a host with a full queue needs, in SpecMixed
MixedTasks == 1..(NumHostTasks + 1)
Calls == Tasks \cup HostTasks \cup MixedTasks

(***************************************************************************)
(* URLs.  urlparse() of a URL with an unbalanced bracket in its netloc     *)
(* raises ValueError("Invalid IPv6 URL"); a URL without a scheme has       *)
(* neither hostname nor origin.                                            *)
(***************************************************************************)
UrlAx == "https://a/x"
UrlAp == "https://a/private"
UrlHx == "http://a/x"
UrlBx == "https://b/x"
UrlBad == "http://["
Urls == {UrlAx, UrlAp, UrlHx, UrlBx, UrlBad}

urlparse_ok(u) == u # UrlBad

hostname(u) ==
  CASE u \in {UrlAx, UrlAp, UrlHx} -> "a"
    [] u = UrlBx -> "b"
    [] OTHER -> ""

origin_from_url(u) ==
  CASE u \in {UrlAx, UrlAp} -> "https://a"
    [] u = UrlHx -> "http://a"
    [] u = UrlBx -> "https://b"
    [] OTHER -> NULL

path_of(u) == IF u = UrlAp THEN "/private" ELSE "/x"

Hosts == {"a", "b"}
Origins == {"https://a", "http://a", "https://b"}

(***************************************************************************)
(* robots.txt.  A cache entry is Absent (origin not in _parsers), None,    *)
(* or a parser: the synthesized "Disallow: /" one, or one parsed from a    *)
(* response body.                                                          *)
(***************************************************************************)
Absent == "absent"
ParserNone == "None"
DisallowAll == "User-agent: * Disallow: /"
BodyEmpty == ""
BodyPrivate == "User-agent: * Disallow: /private"
BodyBot == "User-agent: BerlinJobScraper Disallow: /"
Bodies == {BodyPrivate, BodyBot}

user_agent == "BerlinJobScraper"
Agents == {"BerlinJobScraper", "OtherBot"}

\* Optional values: None is <<>>, a present value x is <<x>>
None == <<>>
Some(x) == <<x>>

\* an httpx.RequestError (transport level: DNS, TCP, TLS, timeout)
TransportError == "ConnectError"

\* str(exc) of a timeout: httpx builds the exception from the message of the
\* TimeoutError underneath, which has none
TimeoutMessage == ""

\* what the network can answer to GET <origin>/robots.txt: a RequestError
\* (status None) or a response with a status code
RobotsOutcomes == {None} \cup {Some(s) : s \in {200, 401, 403, 404, 500}}

\* RobotFileParser.can_fetch(ua, url) for the parsers above
can_fetch(parser, ua, u) ==
  CASE parser = DisallowAll -> FALSE
    [] parser = BodyPrivate -> path_of(u) # "/private"
    [] parser = BodyBot -> ua # "BerlinJobScraper"
    [] OTHER -> TRUE

\* the cache entry _get_parser stores for a robots.txt answer; the two variants
\* before it treat a 5xx answer like 401/403, and forget 403
parser_for_5xx_denied(outcome, body) ==
  IF outcome = None THEN ParserNone
  ELSE IF outcome[1] = 404 THEN ParserNone
  ELSE IF outcome[1] \in {401, 403} THEN DisallowAll
  ELSE IF outcome[1] >= 500 THEN DisallowAll
  ELSE body

parser_for_403_parsed(outcome, body) ==
  IF outcome = None THEN ParserNone
  ELSE IF outcome[1] = 404 THEN ParserNone
  ELSE IF outcome[1] = 401 THEN DisallowAll
  ELSE IF outcome[1] >= 500 THEN ParserNone
  ELSE body

parser_for(outcome, body) ==
  IF outcome = None THEN ParserNone
  ELSE IF outcome[1] = 404 THEN ParserNone
  ELSE IF outcome[1] \in {401, 403} THEN DisallowAll
  ELSE IF outcome[1] >= 500 THEN ParserNone
  ELSE body

VARIABLES
  concurrency,            \* AsyncCrawler(concurrency=..)
  max_attempts,           \* AsyncCrawler(max_attempts=..)
  semaphore,              \* value of self._semaphore
  host_semaphores,        \* value of self._host_semaphores[host]
  host_ts_age,            \* now - self._host_last_request_ts[host], saturating
  parsers,                \* RobotsCache._parsers
  locks,                  \* RobotsCache._locks: the task holding the origin's lock, or 0
  pc, url, attempt, last_exc, response, timer, allowed, result,   \* per fetch() call
  gets,                   \* GETs of the target URL issued by the call
  answered,               \* the last of them was answered, by whatever status
  slept,                  \* the call has started a pacing or jitter sleep
  ts_written,             \* the call has written _host_last_request_ts
  robots_gets,            \* GETs of <origin>/robots.txt issued
  robots_outcome,         \* None, or Some(the answer to that GET)
  since_dispatch,         \* ticks since the last GET dispatched to the host, saturating
  faults                  \* transport errors and 429s produced so far

crawler_vars == <<concurrency, max_attempts, semaphore, host_semaphores, host_ts_age,
                  parsers, locks, pc, url, attempt, last_exc, response, timer, allowed,
                  result, gets, answered, slept, ts_written, robots_gets, robots_outcome,
                  since_dispatch, faults>>

\* _process_place(place, crawler, max_job_links=..), src/job_scraper/main.py
VARIABLES
  place_pc,               \* the part of _process_place the coroutine is in
  max_job_links,          \* the argument max_job_links
  outstanding,            \* crawler.fetch calls the coroutine is awaiting
  fetches,                \* crawler.fetch calls the coroutine has made
  requested,              \* the URLs they were made for, in order, with the loop
                          \* and whether the loop went on without taking the page
  fetch_raised,           \* one of them raised instead of returning
  homepage_result, homepage_html, base_url, http_status,
  ranked_candidates, max_candidates, homepage_detection, tried_urls,
  idx,                    \* items the running for loop has gone through
  job_result,             \* what the last fetch of a candidate or fallback returned
  hiring_flag, job_page_url, matched_keyword, evidence_snippet,
  results,                \* the ScrapeResults returned
  place_exc               \* the exception _process_place raised, if any

hit_vars == <<hiring_flag, job_page_url, matched_keyword, evidence_snippet>>

page_vars == <<homepage_result, homepage_html, base_url, ranked_candidates,
               max_candidates, homepage_detection>>

place_vars == <<place_pc, max_job_links, outstanding, fetches, requested, fetch_raised, page_vars,
                http_status, tried_urls, idx, job_result, hit_vars, results, place_exc>>

(***************************************************************************)
(* A run over several venues: the command line's (main.py, _scrape_places  *)
(* and main) or the web application's (app.py, _execute_job and cancel).   *)
(***************************************************************************)
VARIABLES
  run_mode,        \* "idle", "cli" or "web"
  venue_state,     \* per venue: what _process_place has come to
  gather_state,    \* asyncio.gather(*tasks): "waiting", "returned", "raised"
  job_status,      \* job_record["status"], or "" before the job is made
  job_record,      \* job_record's phase, total, processed and found
  job_known,       \* the job is in JOBS
  producer_pc,     \* where _execute_job is
  next_place,      \* the place the producer's for loop is at
  sentinels_put,   \* how many None the producer has put
  queue,           \* the asyncio.Queue: venues, and 0 for None
  worker_pc,       \* per worker: "get", "process" or "returned"
  worker_item,     \* per worker: the place it processes
  seen_job_pages,  \* canonical job pages with a row
  rows,            \* the rows written through the CSV writer, in order
  output_exists    \* the file at the output path exists

run_vars == <<run_mode, venue_state, gather_state, job_status, job_record, job_known,
              producer_pc,
              next_place, sentinels_put, queue, worker_pc, worker_item, seen_job_pages,
              rows, output_exists>>

(***************************************************************************)
(* One call of a function that has no state of its own.                    *)
(***************************************************************************)
VARIABLES
  fn,    \* the function called, or "" before the call
  arg,   \* its argument
  ret    \* what it returned

call_vars == <<fn, arg, ret>>

other_vars == <<run_vars, call_vars>>

vars == <<crawler_vars, place_vars, other_vars>>

(***************************************************************************)
(* FetchResult, and what a call of fetch() ends with: a FetchResult        *)
(* returned, or an exception raised to the caller.                         *)
(***************************************************************************)
NoResult == [kind |-> "none", exc |-> "", final_url |-> None, status_code |-> None,
             text |-> None, error |-> None]

Raised(e) == [kind |-> "raised", exc |-> e, final_url |-> None, status_code |-> None,
              text |-> None, error |-> None]

\* crawler.py 112-119, and a variant that reports the denial without the error
robots_denied_result_no_error(u) ==
  [kind |-> "returned", exc |-> "", final_url |-> None, status_code |-> None,
   text |-> None, error |-> None]

robots_denied_result(u) ==
  [kind |-> "returned", exc |-> "", final_url |-> None, status_code |-> None,
   text |-> None, error |-> Some("disallowed_by_robots")]

\* crawler.py 133-140: error = str(exc)
request_error_result(u, e) ==
  [kind |-> "returned", exc |-> "", final_url |-> None, status_code |-> None,
   text |-> None, error |-> Some(e)]

\* crawler.py 179-200, for a response whose content type is textual
build_result(u, status) ==
  [kind |-> "returned", exc |-> "", final_url |-> Some(u), status_code |-> Some(status),
   text |-> Some("body"), error |-> None]

Statuses == {200, 429, 500}
Jitter == {JitterMin, JitterMax}
\* Retry-After of a 429: absent or not numeric (None), or "1", in ticks
RetryAfters == {None, Some(MinInterval)}

\* crawler.py 156, 167: min(2.0 * attempt, 6.0) + random.uniform(0.2, 0.8)
backoff(a, j) == Min(BackoffStep * a, BackoffCap) + j

\* crawler.py 78 and 82: the semaphores' initial values; a variant one too large
semaphore_init_off_by_one(c) == c + 1

semaphore_init(c) == c

host_semaphore_init_three == [h \in Hosts |-> HostPermits + 1]

host_semaphore_init == [h \in Hosts |-> HostPermits]

InitCrawler ==
  /\ concurrency \in 1..MaxConcurrency
  /\ max_attempts \in 0..MaxAttemptsCfg
  /\ semaphore = semaphore_init(concurrency)
  /\ host_semaphores = host_semaphore_init
  /\ host_ts_age = [h \in Hosts |-> MinInterval]
  /\ parsers = [o \in Origins |-> Absent]
  /\ locks = [o \in Origins |-> 0]
  /\ pc = [t \in Calls |-> "idle"]
  /\ url = [t \in Calls |-> ""]
  /\ attempt = [t \in Calls |-> 0]
  /\ last_exc = [t \in Calls |-> None]
  /\ response = [t \in Calls |-> None]
  /\ timer = [t \in Calls |-> 0]
  /\ allowed = [t \in Calls |-> None]
  /\ result = [t \in Calls |-> NoResult]
  /\ gets = [t \in Calls |-> 0]
  /\ answered = [t \in Calls |-> FALSE]
  /\ slept = [t \in Calls |-> FALSE]
  /\ ts_written = [t \in Calls |-> FALSE]
  /\ robots_gets = [o \in Origins |-> 0]
  /\ robots_outcome = [o \in Origins |-> None]
  /\ since_dispatch = [h \in Hosts |-> MinInterval]
  /\ faults = 0

\* no call has ended without its caller having gone on
NoneDone == \A t \in Calls : pc[t] # "done"

(***************************************************************************)
(* Pieces shared by the actions.                                           *)
(***************************************************************************)
\* robots.py 46-49, once the cache entry is known
allows_with(entry, ua, u) == entry = ParserNone \/ can_fetch(entry, ua, u)

\* crawler.py 109: self._robots.allows(url, self._user_agent)
verdict(entry, u) == allows_with(entry, user_agent, u)

\* robots.py 61-63: the second look at the cache, under the origin's lock;
\* a variant that does not look again
cached_under_lock_skipped(o) == FALSE

cached_under_lock(o) == parsers[o] # Absent

\* crawler.py 122-124
wait_for(h) == Max(0, MinInterval - host_ts_age[h])

\* crawler.py 108-127 after allows() has answered v: return the robots
\* denial (leaving both `async with` blocks), or start the pacing sleep or,
\* there being nothing to wait for, the jitter sleep.  hsem is the value of
\* the host semaphores the action has reached.
AfterVerdict(t, v, j, hsem) ==
  LET h == hostname(url[t]) IN
  /\ allowed' = [allowed EXCEPT ![t] = Some(v)]
  /\ IF ~v
     THEN /\ pc' = [pc EXCEPT ![t] = "done"]
          /\ result' = [result EXCEPT ![t] = robots_denied_result(url[t])]
          /\ host_semaphores' = [hsem EXCEPT ![h] = @ + 1]
          /\ semaphore' = semaphore + 1
          /\ UNCHANGED <<timer, slept>>
     ELSE /\ host_semaphores' = hsem
          /\ slept' = [slept EXCEPT ![t] = TRUE]
          /\ IF wait_for(h) > 0
             THEN /\ timer' = [timer EXCEPT ![t] = wait_for(h)]
                  /\ pc' = [pc EXCEPT ![t] = "sleep_pace"]
             ELSE /\ timer' = [timer EXCEPT ![t] = j]
                  /\ pc' = [pc EXCEPT ![t] = "sleep_jitter"]
          /\ UNCHANGED <<semaphore, result>>

\* crawler.py 152: self._client.get(url) is sent
Dispatch(t) ==
  LET h == hostname(url[t]) IN
  /\ gets' = [gets EXCEPT ![t] = @ + 1]
  /\ since_dispatch' = [since_dispatch EXCEPT ![h] = 0]

\* a variant of Finish without the finally clause
finish_without_timestamp(t, res) ==
  LET h == hostname(url[t]) IN
  /\ pc' = [pc EXCEPT ![t] = "done"]
  /\ result' = [result EXCEPT ![t] = res]
  /\ UNCHANGED <<host_ts_age, ts_written>>
  /\ host_semaphores' = [host_semaphores EXCEPT ![h] = @ + 1]
  /\ semaphore' = semaphore + 1

\* a variant of Finish that keeps the permit of the host
finish_keeping_host_permit(t, res) ==
  LET h == hostname(url[t]) IN
  /\ pc' = [pc EXCEPT ![t] = "done"]
  /\ result' = [result EXCEPT ![t] = res]
  /\ host_ts_age' = [host_ts_age EXCEPT ![h] = 0]
  /\ ts_written' = [ts_written EXCEPT ![t] = TRUE]
  /\ UNCHANGED host_semaphores
  /\ semaphore' = semaphore + 1

\* crawler.py 129-144: the attempt sequence is over with outcome res; the
\* finally clause writes the timestamp, then both `async with` blocks exit
Finish(t, res) ==
  LET h == hostname(url[t]) IN
  /\ pc' = [pc EXCEPT ![t] = "done"]
  /\ result' = [result EXCEPT ![t] = res]
  /\ host_ts_age' = [host_ts_age EXCEPT ![h] = 0]
  /\ ts_written' = [ts_written EXCEPT ![t] = TRUE]
  /\ host_semaphores' = [host_semaphores EXCEPT ![h] = @ + 1]
  /\ semaphore' = semaphore + 1

\* crawler.py 150: range(1, self._max_attempts + 1) has a next attempt after
\* attempt a; a variant that runs one attempt more
loop_continues_one_more(a) == a <= max_attempts

loop_continues(a) == a < max_attempts

\* crawler.py 174-177: the for loop has run out
exhausted_result(t, exc, resp) ==
  IF exc # None THEN request_error_result(url[t], exc[1])
  ELSE IF resp # None THEN build_result(url[t], resp[1])
  ELSE Raised("AssertionError")

(***************************************************************************)
(* fetch(url), crawler.py 95-107: the call takes a global permit (it waits *)
(* in "idle" while there is none) and parses the URL.                      *)
(***************************************************************************)
StartFetch(t, u) ==
  /\ NoneDone
  /\ pc[t] = "idle"
  /\ \A s \in Calls : s < t => pc[s] # "idle"   \* calls are numbered as they get their permit
  /\ semaphore > 0
  /\ url' = [url EXCEPT ![t] = u]
  /\ IF urlparse_ok(u)
     THEN /\ semaphore' = semaphore - 1
          /\ pc' = [pc EXCEPT ![t] = "wait_host"]
          /\ UNCHANGED result
     ELSE \* urlparse raises ValueError inside `async with self._semaphore`
          /\ pc' = [pc EXCEPT ![t] = "done"]
          /\ result' = [result EXCEPT ![t] = Raised("ValueError")]
          /\ UNCHANGED semaphore
  /\ UNCHANGED <<concurrency, max_attempts, host_semaphores, host_ts_age, parsers, locks,
                 attempt, last_exc, response, timer, allowed, gets, slept, ts_written,
                 robots_gets, robots_outcome, since_dispatch, faults>>
  /\ UNCHANGED <<answered, place_vars, other_vars>>

(***************************************************************************)
(* crawler.py 107-109, robots.py 40-59: the call takes a permit of its     *)
(* host and asks the robots cache.                                         *)
(***************************************************************************)
AcquireHost(t, j) ==
  LET h == hostname(url[t])
      o == origin_from_url(url[t])
      hsem == [host_semaphores EXCEPT ![h] = @ - 1]
  IN
  /\ NoneDone
  /\ pc[t] = "wait_host"
  /\ host_semaphores[h] > 0
  /\ IF o = NULL
     THEN AfterVerdict(t, TRUE, j, hsem)
     ELSE IF parsers[o] # Absent
     THEN AfterVerdict(t, verdict(parsers[o], url[t]), j, hsem)
     ELSE /\ pc' = [pc EXCEPT ![t] = "wait_lock"]
          /\ host_semaphores' = hsem
          /\ UNCHANGED <<semaphore, timer, allowed, result, slept>>
  /\ UNCHANGED <<concurrency, max_attempts, host_ts_age, parsers, locks, url, attempt,
                 last_exc, response, gets, ts_written, robots_gets, robots_outcome,
                 since_dispatch, faults>>
  /\ UNCHANGED <<answered, place_vars, other_vars>>

(***************************************************************************)
(* robots.py 60-72: under the origin's lock, look again, then send the GET *)
(* of <origin>/robots.txt.                                                 *)
(***************************************************************************)
AcquireRobotsLock(t, j) ==
  LET o == origin_from_url(url[t]) IN
  /\ NoneDone
  /\ pc[t] = "wait_lock"
  /\ locks[o] = 0
  /\ IF cached_under_lock(o)
     THEN /\ AfterVerdict(t, verdict(parsers[o], url[t]), j, host_semaphores)
          /\ UNCHANGED <<locks, robots_gets>>
     ELSE /\ locks' = [locks EXCEPT ![o] = t]
          /\ robots_gets' = [robots_gets EXCEPT ![o] = Min(@ + 1, 2)]
          /\ pc' = [pc EXCEPT ![t] = "robots_get"]
          /\ UNCHANGED <<semaphore, host_semaphores, timer, allowed, result, slept>>
  /\ UNCHANGED <<concurrency, max_attempts, host_ts_age, parsers, url, attempt, last_exc,
                 response, gets, ts_written, robots_outcome, since_dispatch,
                 faults>>
  /\ UNCHANGED <<answered, place_vars, other_vars>>

(***************************************************************************)
(* robots.py 73-102: the answer to the robots.txt GET is recorded and the  *)
(* lock released; allows() answers.                                        *)
(***************************************************************************)
RobotsResponse(t, outcome, body, j) ==
  LET o == origin_from_url(url[t])
      entry == parser_for(outcome, body)
  IN
  /\ NoneDone
  /\ pc[t] = "robots_get"
  /\ parsers' = [parsers EXCEPT ![o] = entry]
  /\ robots_outcome' = [robots_outcome EXCEPT ![o] = Some(outcome)]
  /\ locks' = [locks EXCEPT ![o] = 0]
  /\ AfterVerdict(t, verdict(entry, url[t]), j, host_semaphores)
  /\ UNCHANGED <<concurrency, max_attempts, host_ts_age, url, attempt, last_exc,
                 response, gets, ts_written, robots_gets, since_dispatch,
                 faults>>
  /\ UNCHANGED <<answered, place_vars, other_vars>>

(***************************************************************************)
(* crawler.py 126-127: the pacing sleep is over, the jitter sleep starts.  *)
(***************************************************************************)
WakePace(t, j) ==
  /\ NoneDone
  /\ pc[t] = "sleep_pace"
  /\ timer[t] = 0
  /\ timer' = [timer EXCEPT ![t] = j]
  /\ pc' = [pc EXCEPT ![t] = "sleep_jitter"]
  /\ UNCHANGED <<concurrency, max_attempts, semaphore, host_semaphores, host_ts_age,
                 parsers, locks, url, attempt, last_exc, response, allowed, result, gets,
                 slept, ts_written, robots_gets, robots_outcome, since_dispatch, faults>>
  /\ UNCHANGED <<answered, place_vars, other_vars>>

(***************************************************************************)
(* crawler.py 127-130, 146-152: the jitter sleep is over;                  *)
(* _get_with_retries starts its loop and sends the first GET, or, with no  *)
(* attempt configured, falls through the loop.                             *)
(***************************************************************************)
WakeJitter(t) ==
  /\ NoneDone
  /\ pc[t] = "sleep_jitter"
  /\ timer[t] = 0
  /\ IF loop_continues(0)
     THEN /\ attempt' = [attempt EXCEPT ![t] = 1]
          /\ pc' = [pc EXCEPT ![t] = "get"]
          /\ Dispatch(t)
          /\ UNCHANGED <<semaphore, host_semaphores, host_ts_age, result, ts_written>>
     ELSE /\ Finish(t, exhausted_result(t, None, None))
          /\ UNCHANGED <<attempt, gets, since_dispatch>>
  /\ UNCHANGED <<concurrency, max_attempts, parsers, locks, url, last_exc, response,
                 timer, allowed, slept, robots_gets, robots_outcome, faults>>
  /\ UNCHANGED <<answered, place_vars, other_vars>>

(***************************************************************************)
(* crawler.py 152-172: the GET is answered with a status.                  *)
(***************************************************************************)
GetResponse(t, status, retry_after, j) ==
  /\ NoneDone
  /\ pc[t] = "get"
  /\ response' = [response EXCEPT ![t] = Some(status)]
  /\ IF status = 429
     THEN /\ faults < MaxFaults
          /\ faults' = faults + 1
          /\ timer' = [timer EXCEPT ![t] =
                         IF retry_after # None THEN retry_after[1]
                         ELSE backoff(attempt[t], j)]
          /\ pc' = [pc EXCEPT ![t] = "sleep_retry"]
          /\ UNCHANGED <<semaphore, host_semaphores, host_ts_age, result, ts_written>>
     ELSE /\ Finish(t, build_result(url[t], status))
          /\ UNCHANGED <<timer, faults>>
  /\ UNCHANGED <<concurrency, max_attempts, parsers, locks, url, attempt, last_exc,
                 allowed, gets, slept, robots_gets, robots_outcome, since_dispatch>>
  /\ answered' = [answered EXCEPT ![t] = TRUE]
  /\ UNCHANGED <<place_vars, other_vars>>

(***************************************************************************)
(* crawler.py 153-158: the GET fails with an httpx.RequestError.           *)
(***************************************************************************)
GetError(t, j) ==
  /\ NoneDone
  /\ pc[t] = "get"
  /\ faults < MaxFaults
  /\ faults' = faults + 1
  /\ last_exc' = [last_exc EXCEPT ![t] = Some(TransportError)]
  /\ timer' = [timer EXCEPT ![t] = backoff(attempt[t], j)]
  /\ pc' = [pc EXCEPT ![t] = "sleep_retry"]
  /\ UNCHANGED <<concurrency, max_attempts, semaphore, host_semaphores, host_ts_age,
                 parsers, locks, url, attempt, response, allowed, result, gets, slept,
                 ts_written, robots_gets, robots_outcome, since_dispatch>>
  /\ answered' = [answered EXCEPT ![t] = FALSE]
  /\ UNCHANGED <<place_vars, other_vars>>

(***************************************************************************)
(* crawler.py 150-152, 158, 169, 174-177: the backoff sleep is over; the   *)
(* loop sends the next GET or has run out.                                 *)
(***************************************************************************)
WakeRetry(t) ==
  /\ NoneDone
  /\ pc[t] = "sleep_retry"
  /\ timer[t] = 0
  /\ IF loop_continues(attempt[t])
     THEN /\ attempt' = [attempt EXCEPT ![t] = @ + 1]
          /\ pc' = [pc EXCEPT ![t] = "get"]
          /\ Dispatch(t)
          /\ UNCHANGED <<semaphore, host_semaphores, host_ts_age, result, ts_written>>
     ELSE /\ Finish(t, exhausted_result(t, last_exc[t], response[t]))
          /\ UNCHANGED <<attempt, gets, since_dispatch>>
  /\ UNCHANGED <<concurrency, max_attempts, parsers, locks, url, last_exc, response,
                 timer, allowed, slept, robots_gets, robots_outcome, faults>>
  /\ UNCHANGED <<answered, place_vars, other_vars>>

(***************************************************************************)
(* crawler.py 119, 140, 144: the call is over; its caller, which awaits    *)
(* the coroutine in the same asyncio task, goes on with the outcome before *)
(* any other task runs.  The frame of the call is dropped.                 *)
(***************************************************************************)
Return(t) ==
  /\ pc[t] = "done"
  /\ pc' = [pc EXCEPT ![t] = "returned"]
  /\ url' = [url EXCEPT ![t] = ""]
  /\ attempt' = [attempt EXCEPT ![t] = 0]
  /\ last_exc' = [last_exc EXCEPT ![t] = None]
  /\ response' = [response EXCEPT ![t] = None]
  /\ timer' = [timer EXCEPT ![t] = 0]
  /\ allowed' = [allowed EXCEPT ![t] = None]
  /\ result' = [result EXCEPT ![t] = NoResult]
  /\ gets' = [gets EXCEPT ![t] = 0]
  /\ slept' = [slept EXCEPT ![t] = FALSE]
  /\ ts_written' = [ts_written EXCEPT ![t] = FALSE]
  /\ UNCHANGED <<concurrency, max_attempts, semaphore, host_semaphores, host_ts_age,
                 parsers, locks, robots_gets, robots_outcome, since_dispatch, faults>>
  /\ answered' = [answered EXCEPT ![t] = FALSE]
  /\ UNCHANGED <<place_vars, other_vars>>

(***************************************************************************)
(* 0.2 s pass.                                                             *)
(***************************************************************************)
Tick ==
  /\ NoneDone
  /\ timer' = [t \in Calls |-> Max(0, timer[t] - 1)]
  /\ host_ts_age' = [h \in Hosts |-> Min(MinInterval, host_ts_age[h] + 1)]
  /\ since_dispatch' = [h \in Hosts |-> Min(MinInterval, since_dispatch[h] + 1)]
  /\ UNCHANGED <<concurrency, max_attempts, semaphore, host_semaphores, parsers, locks,
                 pc, url, attempt, last_exc, response, allowed, result, gets, slept,
                 ts_written, robots_gets, robots_outcome, faults>>
  /\ UNCHANGED <<answered, place_vars, other_vars>>

(***************************************************************************)
(* A long time passes: every sleep under way is over, every timestamp is   *)
(* older than the minimum interval.                                        *)
(***************************************************************************)
Elapse ==
  /\ NoneDone
  /\ timer' = [t \in Calls |-> 0]
  /\ host_ts_age' = [h \in Hosts |-> MinInterval]
  /\ since_dispatch' = [h \in Hosts |-> MinInterval]
  /\ UNCHANGED <<concurrency, max_attempts, semaphore, host_semaphores, parsers, locks,
                 pc, url, attempt, last_exc, response, allowed, result, gets, slept,
                 ts_written, robots_gets, robots_outcome, faults>>
  /\ UNCHANGED <<answered, place_vars, other_vars>>

(***************************************************************************)
(* Part II.  _process_place, src/job_scraper/main.py 304-475.              *)
(*                                                                         *)
(* A URL is a record of the part up to the directory the site lives in and *)
(* the path below it.  A page is described by what the extraction and      *)
(* classification functions find in it.                                    *)
(***************************************************************************)
MaxRanked == 2         \* ranked candidates a homepage yields, at most
MaxJobLinksCfg == 1    \* the argument max_job_links ranges over 0..MaxJobLinksCfg

MaxFallbacks == 5      \* min(5, len(fallback_urls))

Url(b, p) == [base |-> b, path |-> p, frag |-> ""]

\* the URL with a fragment
UrlFrag(b, p, f) == [base |-> b, path |-> p, frag |-> f]

SiteRoot == "https://v"
SiteDir == "https://v/en"
VendorBase == "https://v.jobs.personio.de"

\* place.website
PlaceWebsite == Url(SiteRoot, "/")

\* place.website after redirects: the site's root, or a directory of it
BaseUrls == {Url(SiteRoot, "/"), Url(SiteDir, "/")}

\* scheme://netloc of a URL of the site
base_root(u) == IF u.base = SiteDir THEN SiteRoot ELSE u.base

\* main.py 657-664: no fragment, no trailing slash on a path that is not "/"
\* main.py 659-660: the "" returned for a URL without scheme or host
EmptyUrl == UrlFrag("", "", "")

canonicalize_url(u) ==
  IF u.base = "" THEN EmptyUrl
  ELSE [u EXCEPT !.frag = "",
                 !.path = CASE @ = "/jobs/" -> "/jobs"
                            [] @ = "/karriere/" -> "/karriere"
                            [] @ = "/careers/" -> "/careers"
                            [] @ = "/about/" -> "/about"
                            [] OTHER -> @]

\* main.py 88-102
FALLBACK_PATHS ==
  <<"/jobs", "/jobs/", "/karriere", "/karriere/", "/karriere/jobs", "/careers",
    "/careers/", "/stellen", "/stellenangebote", "/offene-stellen", "/join",
    "/join-us", "/join-our-team">>

SeqToSet(q) == {q[i] : i \in 1..Len(q)}

\* a variant of the loop below that has no set `seen`
RECURSIVE fallback_loop_without_seen(_, _, _)
fallback_loop_without_seen(b, i, ordered) ==
  IF i > Len(FALLBACK_PATHS) THEN ordered
  ELSE LET absolute_root == canonicalize_url(Url(base_root(b), FALLBACK_PATHS[i]))
           absolute_relative == canonicalize_url(Url(b.base, FALLBACK_PATHS[i]))
           keep(o, u) == IF u # canonicalize_url(b) THEN Append(o, u) ELSE o
       IN fallback_loop_without_seen(b, i + 1,
                                     keep(keep(ordered, absolute_root), absolute_relative))

\* main.py 677-696: the loop over FALLBACK_PATHS from its i-th path on, with
\* the URLs `ordered` collected so far
RECURSIVE fallback_loop(_, _, _)
fallback_loop(b, i, ordered) ==
  IF i > Len(FALLBACK_PATHS) THEN ordered
  ELSE LET absolute_root == canonicalize_url(Url(base_root(b), FALLBACK_PATHS[i]))
           absolute_relative == canonicalize_url(Url(b.base, FALLBACK_PATHS[i]))
           keep(o, u) == IF u \notin SeqToSet(o) /\ u # canonicalize_url(b)
                         THEN Append(o, u) ELSE o
       IN fallback_loop(b, i + 1, keep(keep(ordered, absolute_root), absolute_relative))

\* main.py 667-698, for the base URLs there are
FallbackUrlsOf == [b \in BaseUrls |-> fallback_loop(b, 1, <<>>)]

iter_fallback_urls(b) == FallbackUrlsOf[b]

\* detection.py 56-70, one vendor and one strong keyword
VENDOR_KEYWORDS == {"personio"}

\* detection.py 12-31, 34-40, 43-54
STRONG_KEYWORDS ==
  <<"jobs", "karriere", "stellenangebote", "offene stellen", "career", "careers",
    "vacancy", "vacancies", "hiring", "bewerben", "bewerbung", "bewirb", "arbeiten bei",
    "mitarbeiten", "join our team", "teilzeit", "minijob", "aushilfe">>

WEAK_KEYWORDS == <<"job", "stellen", "apply", "join", "team">>

FALSE_POSITIVE_PATTERNS ==
  {"stellen sie", "zur verfügung stellen", "frage stellen", "cookie", "datenschutz",
   "impressum", "reservier", "kontaktformular", "weihnachts", "speisekarte"}

\* detection.py 147-156, 159
team_page_indicators ==
  {"meet the team", "meet our team", "unser team", "unser team kennenlernen",
   "about us", "über uns", "our story", "unsere geschichte"}

strong_job_signals ==
  {"bewerb", "apply", "offene stellen", "stellenangebote", "hiring", "karriere"}

\* detection.py 213-226, 232-243
false_positive_indicators ==
  FALSE_POSITIVE_PATTERNS \cup {"menü", "menu"}

positive_indicators ==
  {"job", "karriere", "bewerb", "mitarbeit", "aushilfe", "teilzeit", "minijob", "offene",
   "position", "stelle"}

\* The visible text of a page, lowered: the set of the phrases in it, which
\* stand more than 100 characters apart.  Of the strings the code looks for,
\* those that occur in a phrase:
Occurs ==
  [phrase \in {"speisekarte", "jetzt bewerben", "powered by personio", "about us",
               "careers", "meet the team", "apply now", "wir stellen uns vor",
               "Unsere Stellen"} |->
     CASE phrase = "speisekarte" -> {"speisekarte"}
       [] phrase = "jetzt bewerben" -> {"bewerben", "bewerb"}
       [] phrase = "powered by personio" -> {"personio"}
       [] phrase = "about us" -> {"about us"}
       [] phrase = "careers" -> {"career", "careers"}
       [] phrase = "meet the team" -> {"meet the team", "team"}
       [] phrase = "apply now" -> {"apply"}
       [] phrase = "wir stellen uns vor" -> {"stellen", "stelle"}
       [] phrase = "Unsere Stellen" -> {"stellen", "stelle"}]

\* detection.py 255: "Stellen" is in the phrase as it is written
has_capital_stellen(phrase) == phrase = "Unsere Stellen"

Phrases == DOMAIN Occurs

\* needle in lowered
found_in(text, needle) == \E phrase \in text : needle \in Occurs[phrase]

\* the phrase of the text where lowered.find(needle) is
phrase_of(text, needle) == CHOOSE phrase \in text : needle \in Occurs[phrase]

\* the texts of pages: none, without a hiring signal, with the strong keyword
\* "bewerben", with the vendor keyword "personio" only
NoText == {}
TextPlain == {"speisekarte"}
TextHiring == {"jetzt bewerben"}
TextVendor == {"powered by personio"}
Texts == {TextPlain, TextHiring, TextVendor}

\* detection.py 157-161: the page is a team or about page without a strong
\* job signal
team_page_rejected(text) ==
  /\ \E indicator \in team_page_indicators : found_in(text, indicator)
  /\ ~\E signal \in strong_job_signals : found_in(text, signal)

\* detection.py 164-166
has_false_positive_context(text) ==
  \E pattern \in FALSE_POSITIVE_PATTERNS : found_in(text, pattern)

\* detection.py 205-261, the context being the phrase of the match
is_valid_job_context(context, keyword) ==
  IF \E indicator \in false_positive_indicators : indicator \in Occurs[context]
  THEN FALSE
  ELSE IF \E indicator \in positive_indicators :
            indicator \in Occurs[context] /\ indicator # keyword
  THEN TRUE
  ELSE IF keyword = "stellen"
  THEN "stellenangebote" \in Occurs[context] \/ has_capital_stellen(context)
  ELSE TRUE

\* detection.py 179-194: the keyword of the list at k is a match
keyword_matches(text, k) ==
  LET keyword_list == STRONG_KEYWORDS \o WEAK_KEYWORDS
      keyword == keyword_list[k]
      is_weak == k > Len(STRONG_KEYWORDS)
  IN /\ ~(is_weak /\ has_false_positive_context(text))
     /\ found_in(text, keyword)
     /\ is_weak => is_valid_job_context(phrase_of(text, keyword), keyword)

\* detection.py 163-202: the walk over the keywords, then over the vendors; a
\* snippet is a string in two parts, what the code puts first and what follows
keyword_walk(text) ==
  LET keyword_list == STRONG_KEYWORDS \o WEAK_KEYWORDS
      hits == {k \in 1..Len(keyword_list) : keyword_matches(text, k)}
  IN IF hits # {}
     THEN LET k == CHOOSE h \in hits : \A g \in hits : h <= g
          IN <<TRUE, Some(keyword_list[k]), Some(<<"", phrase_of(text, keyword_list[k])>>)>>
     ELSE IF \E vendor \in VENDOR_KEYWORDS : found_in(text, vendor)
     THEN LET vendor == CHOOSE v \in VENDOR_KEYWORDS : found_in(text, v)
          IN <<TRUE, Some(vendor), Some(<<"Detected vendor keyword ", vendor>>)>>
     ELSE <<FALSE, None, None>>

\* detection.py 126-202: (is_hiring, matched_keyword, snippet), tabulated
DetectionOf ==
  [text \in SUBSET Phrases |->
     IF text = NoText \/ team_page_rejected(text) THEN <<FALSE, None, None>>
     ELSE keyword_walk(text)]

detect_hiring_signals(text) == DetectionOf[text]

\* the links a homepage can carry: one of them at a well-known path
CandidatePool == {Url(SiteRoot, "/jobs"), Url(SiteRoot, "/team"), Url(VendorBase, "/v")}

\* the lists of distinct links of length up to n
RECURSIVE DistinctSeqs(_, _)
DistinctSeqs(S, n) ==
  IF n = 0 THEN {<<>>}
  ELSE LET shorter == DistinctSeqs(S, n - 1) IN
       shorter \cup {Append(q, x) : q \in {r \in shorter : Len(r) = n - 1},
                                    x \in S}

RankedLists == {q \in DistinctSeqs(CandidatePool, MaxRanked) :
                  \A i, j \in 1..Len(q) : i # j => q[i] # q[j]}

\* the homepage: its text, the links _rank_candidates keeps of it, in order,
\* the links extract_job_links finds in it, and whether one of its anchors has
\* an href urljoin cannot parse (such as "//[")
Page(text, ranked, links, bad) ==
  [text |-> text, ranked |-> ranked, job_links |-> links, malformed |-> bad]

NoPage == Page(NoText, <<>>, <<>>, FALSE)

\* the lists extract_job_links can return: links whose text or href has a job
\* keyword, as urljoin leaves them; <a href="/about/#section2">Jobs</a>,
\* <a href="/#jobs">Jobs</a> and <a href="/jobs-personio">Jobs</a> are among them
JobLinkLists == {<<>>, <<Url(SiteRoot, "/jobs")>>, <<Url(VendorBase, "/v")>>,
                 <<Url(SiteRoot, "/jobs"), Url(VendorBase, "/v")>>,
                 <<UrlFrag(SiteRoot, "/about/", "section2")>>,
                 <<UrlFrag(SiteRoot, "/", "jobs")>>,
                 <<Url(SiteRoot, "/jobs-personio")>>}

HomePages ==
  {Page(t, r, l, FALSE) : t \in Texts, r \in RankedLists, l \in JobLinkLists}
    \cup {Page(TextPlain, <<>>, <<>>, TRUE)}

\* detection.py 116, main.py 552: urljoin(base_url, href) raises ValueError
extraction_raises(html) == html.malformed

\* main.py 336-342
rank_candidates(html) == html.ranked

\* detection.py 75-123
extract_job_links(html) == html.job_links

\* crawler.py 179-200 for a page with the given text
fetched(final, status, text) == [build_result(final, status) EXCEPT !.text = Some(text)]

\* what crawler.fetch(u) can end with
FetchOutcomes(u) ==
  {Raised("ValueError"), robots_denied_result(u), request_error_result(u, TransportError),
   request_error_result(u, TimeoutMessage)}
    \cup {fetched(f, 200, t) : f \in {u, [u EXCEPT !.path = "/jobs/"]}, t \in Texts}
    \cup {fetched(u, 404, TextHiring)}

\* what crawler.fetch(place.website) can end with
HomepageOutcomes ==
  {Raised("ValueError"), robots_denied_result(NULL), request_error_result(NULL, TransportError),
   request_error_result(NULL, TimeoutMessage)}
    \cup {[build_result(b, st) EXCEPT !.text = Some(h)] :
            b \in BaseUrls, st \in {200, 404}, h \in HomePages}

\* models.py 21-31, without the place and the time stamp
ScrapeResult(jpu, hiring, evidence, keyword, status) ==
  [job_page_url |-> jpu, hiring |-> hiring, evidence_snippet |-> evidence,
   matched_keyword |-> keyword, http_status |-> status]

InitPlace ==
  /\ place_pc = "FETCH_HOMEPAGE"
  /\ max_job_links = 0
  /\ outstanding = 0
  /\ fetches = 0
  /\ requested = <<>>
  /\ fetch_raised = FALSE
  /\ homepage_result = NoResult
  /\ homepage_html = NoPage
  /\ base_url = Url("", "")
  /\ http_status = None
  /\ ranked_candidates = <<>>
  /\ max_candidates = 0
  /\ homepage_detection = <<FALSE, None, None>>
  /\ tried_urls = {}
  /\ idx = 0
  /\ job_result = NoResult
  /\ hiring_flag = FALSE
  /\ job_page_url = None
  /\ matched_keyword = None
  /\ evidence_snippet = None
  /\ results = <<>>
  /\ place_exc = None

\* main.py 467-475 (and 316-324): return ScrapeResult(..)
ReturnResult(r) ==
  /\ results' = Append(results, r)
  /\ place_pc' = "DONE"

\* an exception e leaves _process_place
RaiseFrom(e) ==
  /\ place_exc' = Some(e)
  /\ place_pc' = "RAISED"

\* main.py 312 (or 363, 398): await crawler.fetch(..) is entered
SendFetch(loop, u) ==
  /\ outstanding' = outstanding + 1
  /\ fetches' = fetches + 1
  /\ requested' = Append(requested, [loop |-> loop, url |-> u, passed_over |-> FALSE])

\* main.py 364-369 (and 399-406): `continue` after the fetch last entered
PassedOver == [requested EXCEPT ![Len(requested)].passed_over = TRUE]

\* the truth value Python gives a str | None
truthy(opt) == opt # None /\ opt[1] # ""

\* x or default, for the optional x
or_else(opt, default) == IF opt # None THEN opt[1] ELSE default

\* main.py 314: if homepage_result.error
homepage_failed(res) == truthy(res.error)

\* main.py 315-324
homepage_error_result(res) ==
  ScrapeResult(None, FALSE, Some(<<"Error fetching homepage: ", res.error[1]>>), None, None)

\* main.py 391: the fallback paths are probed; a variant that forgets the hit
fallbacks_wanted_after_hit(hf) == homepage_detection[1] \/ ranked_candidates # <<>>

\* a variant that asks for no signal of the site
fallbacks_wanted_without_signal(hf) == ~hf

fallbacks_wanted(hf) == ~hf /\ (homepage_detection[1] \/ ranked_candidates # <<>>)

\* main.py 424: the homepage's own signal is resolved; a variant that forgets
\* the hit
resolve_wanted_after_hit(hf) == homepage_detection[1]

resolve_wanted(hf) == ~hf /\ homepage_detection[1]

\* main.py 390-394, 424, 467: the loop over the candidates is left, by its end
\* or by break, with the locals hf, jpu, kw, ev, st
LeaveCandidates(hf, jpu, kw, ev, st) ==
  IF fallbacks_wanted(hf)
  THEN /\ place_pc' = "PROBE_FALLBACKS"
       /\ idx' = 0
       /\ UNCHANGED results
  ELSE IF resolve_wanted(hf)
  THEN /\ place_pc' = "RESOLVE_HOMEPAGE_SIGNAL"
       /\ UNCHANGED <<idx, results>>
  ELSE /\ ReturnResult(ScrapeResult(jpu, hf, ev, kw, st))
       /\ UNCHANGED idx

\* main.py 422-424, 467: the loop over the fallbacks is left
LeaveFallbacks(hf, jpu, kw, ev, st) ==
  IF resolve_wanted(hf)
  THEN /\ place_pc' = "RESOLVE_HOMEPAGE_SIGNAL"
       /\ UNCHANGED results
  ELSE ReturnResult(ScrapeResult(jpu, hf, ev, kw, st))

\* main.py 370-371 (and 408-409): the URL of the page fetched; a variant that
\* takes the URL asked for
resolved_url_requested(res, u) == u

resolved_url(res, u) == or_else(res.final_url, u)

\* a variant that takes the hit and forgets its URL
accept_hit_without_url(res, u) ==
  LET detection == detect_hiring_signals(or_else(res.text, NoText)) IN
  /\ job_page_url' = job_page_url
  /\ matched_keyword' = detection[2]
  /\ evidence_snippet' = detection[3]
  /\ http_status' = IF or_else(res.status_code, 0) # 0 THEN res.status_code
                     ELSE http_status
  /\ hiring_flag' = TRUE

\* main.py 372-387 (and 411-421): the page fetched for u is a hit
AcceptHit(res, u) ==
  LET detection == detect_hiring_signals(or_else(res.text, NoText))
      canonical_resolved == canonicalize_url(resolved_url(res, u))
  IN
  /\ job_page_url' = Some(IF u.frag # "" THEN [canonical_resolved EXCEPT !.frag = u.frag]
                           ELSE canonical_resolved)
  /\ matched_keyword' = detection[2]
  /\ evidence_snippet' = detection[3]
  /\ http_status' = IF or_else(res.status_code, 0) # 0 THEN res.status_code
                     ELSE http_status
  /\ hiring_flag' = TRUE

\* main.py 365-375 (and 402-410): the page fetched is passed over; a variant
\* that does not look at the status
rejected_whatever_status(res) ==
  \/ truthy(res.error)
  \/ ~detect_hiring_signals(or_else(res.text, NoText))[1]

Rejected(res) ==
  \/ truthy(res.error)
  \/ or_else(res.status_code, 0) >= 400
  \/ ~detect_hiring_signals(or_else(res.text, NoText))[1]

(***************************************************************************)
(* main.py 304-312: _process_place is called and awaits the homepage.      *)
(***************************************************************************)
FetchHomepage(mjl) ==
  /\ place_pc = "FETCH_HOMEPAGE"
  /\ fetches = 0
  /\ max_job_links' = mjl
  /\ SendFetch("homepage", PlaceWebsite)
  /\ UNCHANGED <<place_pc, fetch_raised, page_vars, http_status, tried_urls, idx,
                 job_result, hit_vars, results, place_exc>>
  /\ UNCHANGED <<crawler_vars, other_vars>>

(***************************************************************************)
(* main.py 312-330: the homepage fetch is over.                            *)
(***************************************************************************)
HomepageResult(res) ==
  /\ place_pc = "FETCH_HOMEPAGE"
  /\ outstanding = 1
  /\ outstanding' = 0
  /\ IF res.kind = "raised"
     THEN /\ RaiseFrom(res.exc)
          /\ fetch_raised' = TRUE
          /\ UNCHANGED <<homepage_result, homepage_html, base_url, http_status, results>>
     ELSE /\ homepage_result' = res
          /\ IF homepage_failed(res)
             THEN /\ ReturnResult(homepage_error_result(res))
                  /\ UNCHANGED <<homepage_html, base_url, http_status>>
             ELSE /\ base_url' = or_else(res.final_url, PlaceWebsite)
                  /\ http_status' = res.status_code
                  /\ homepage_html' = or_else(res.text, NoPage)
                  /\ place_pc' = "EXTRACT_AND_CLASSIFY"
                  /\ UNCHANGED results
          /\ UNCHANGED <<fetch_raised, place_exc>>
  /\ UNCHANGED <<max_job_links, fetches, requested, ranked_candidates, max_candidates,
                 homepage_detection, tried_urls, idx, job_result, hit_vars>>
  /\ UNCHANGED <<crawler_vars, other_vars>>

\* main.py 344-346: the candidates probed of n ranked ones; a variant without
\* the cap
candidates_uncapped(n, mjl) == n

candidates_cap(n, mjl) == IF mjl > 0 THEN Min(n, mjl) ELSE n

(***************************************************************************)
(* main.py 332-355: links are extracted and ranked, the homepage is        *)
(* classified.                                                             *)
(***************************************************************************)
ExtractAndClassify ==
  /\ place_pc = "EXTRACT_AND_CLASSIFY"
  /\ IF extraction_raises(homepage_html)
     THEN /\ RaiseFrom("ValueError")
          /\ UNCHANGED <<ranked_candidates, max_candidates, homepage_detection>>
     ELSE /\ ranked_candidates' = rank_candidates(homepage_html)
          /\ max_candidates' = candidates_cap(Len(rank_candidates(homepage_html)),
                                              max_job_links)
          /\ homepage_detection' = detect_hiring_signals(homepage_html.text)
          /\ place_pc' = "PROBE_CANDIDATES"
          /\ UNCHANGED place_exc
  /\ UNCHANGED <<max_job_links, outstanding, fetches, requested, fetch_raised, homepage_result,
                 homepage_html, base_url, http_status, tried_urls, idx, job_result,
                 hit_vars, results>>
  /\ UNCHANGED <<crawler_vars, other_vars>>

(***************************************************************************)
(* main.py 357-363, 390-394, 424, 467: the candidate loop takes its next   *)
(* item and fetches it; or it is over without a hit, and the fallbacks     *)
(* follow, or nothing does.                                                *)
(***************************************************************************)
ProbeCandidate ==
  /\ place_pc = "PROBE_CANDIDATES"
  /\ outstanding = 0
  /\ IF idx < max_candidates
     THEN LET canonical_candidate == canonicalize_url(ranked_candidates[idx + 1]) IN
          IF canonical_candidate \in tried_urls
          THEN /\ idx' = idx + 1
               /\ UNCHANGED <<place_pc, outstanding, fetches, requested, tried_urls, results>>
          ELSE /\ tried_urls' = tried_urls \cup {canonical_candidate}
               /\ SendFetch("candidates", ranked_candidates[idx + 1])
               /\ UNCHANGED <<place_pc, idx, results>>
     ELSE /\ LeaveCandidates(hiring_flag, job_page_url, matched_keyword,
                             evidence_snippet, http_status)
          /\ UNCHANGED <<outstanding, fetches, requested, tried_urls>>
  /\ UNCHANGED <<max_job_links, fetch_raised, page_vars, http_status, job_result,
                 hit_vars, place_exc>>
  /\ UNCHANGED <<crawler_vars, other_vars>>

(***************************************************************************)
(* main.py 363-388: the candidate's fetch is over.                         *)
(***************************************************************************)
CandidateReturns(res) ==
  /\ outstanding' = 0
  /\ IF res.kind = "raised"
     THEN /\ RaiseFrom(res.exc)
          /\ fetch_raised' = TRUE
          /\ UNCHANGED <<idx, requested, job_result, hit_vars, http_status, results>>
     ELSE /\ job_result' = res
          /\ IF Rejected(res)
             THEN /\ idx' = idx + 1
                  /\ requested' = PassedOver
                  /\ UNCHANGED <<place_pc, hit_vars, http_status, results>>
             ELSE /\ AcceptHit(res, ranked_candidates[idx + 1])
                  /\ LeaveCandidates(TRUE, job_page_url', matched_keyword',
                                     evidence_snippet', http_status')
                  /\ UNCHANGED requested
          /\ UNCHANGED <<fetch_raised, place_exc>>
  /\ UNCHANGED <<max_job_links, fetches, page_vars, tried_urls>>
  /\ UNCHANGED <<crawler_vars, other_vars>>

CandidateResult ==
  /\ place_pc = "PROBE_CANDIDATES"
  /\ outstanding = 1
  /\ \E res \in FetchOutcomes(ranked_candidates[idx + 1]) : CandidateReturns(res)

(***************************************************************************)
(* main.py 392-398, 424, 467: the fallback loop takes its next item and    *)
(* fetches it; or it is over without a hit.                                *)
(***************************************************************************)
ProbeFallback ==
  LET fallback_urls == iter_fallback_urls(base_url)
      max_fallbacks == Min(MaxFallbacks, Len(fallback_urls))
  IN
  /\ place_pc = "PROBE_FALLBACKS"
  /\ outstanding = 0
  /\ IF idx < max_fallbacks
     THEN IF fallback_urls[idx + 1] \in tried_urls
          THEN /\ idx' = idx + 1
               /\ UNCHANGED <<place_pc, outstanding, fetches, requested, results>>
          ELSE /\ SendFetch("fallbacks", fallback_urls[idx + 1])
               /\ UNCHANGED <<place_pc, idx, results>>
     ELSE /\ LeaveFallbacks(hiring_flag, job_page_url, matched_keyword,
                            evidence_snippet, http_status)
          /\ UNCHANGED <<outstanding, fetches, requested, idx>>
  /\ UNCHANGED <<max_job_links, fetch_raised, page_vars, http_status, tried_urls,
                 job_result, hit_vars, place_exc>>
  /\ UNCHANGED <<crawler_vars, other_vars>>

(***************************************************************************)
(* main.py 397-422: the fallback's fetch is over; an exception of it is    *)
(* caught.                                                                 *)
(***************************************************************************)
FallbackReturns(res) ==
  /\ outstanding' = 0
  /\ IF res.kind = "raised"
     THEN /\ idx' = idx + 1
          /\ fetch_raised' = TRUE
          /\ requested' = PassedOver
          /\ UNCHANGED <<place_pc, job_result, hit_vars, http_status, results>>
     ELSE /\ job_result' = res
          /\ IF Rejected(res)
             THEN /\ idx' = idx + 1
                  /\ requested' = PassedOver
                  /\ UNCHANGED <<place_pc, hit_vars, http_status, results>>
             ELSE /\ AcceptHit(res, iter_fallback_urls(base_url)[idx + 1])
                  /\ LeaveFallbacks(TRUE, job_page_url', matched_keyword',
                                    evidence_snippet', http_status')
                  /\ UNCHANGED <<idx, requested>>
          /\ UNCHANGED fetch_raised
  /\ UNCHANGED <<max_job_links, fetches, page_vars, tried_urls, place_exc>>
  /\ UNCHANGED <<crawler_vars, other_vars>>

FallbackResult ==
  /\ place_pc = "PROBE_FALLBACKS"
  /\ outstanding = 1
  /\ \E res \in FetchOutcomes(iter_fallback_urls(base_url)[idx + 1]) : FallbackReturns(res)

(***************************************************************************)
(* main.py 424-475: the homepage's own signal decides.                     *)
(***************************************************************************)
\* the host of the URL has one of VENDOR_HOST_FRAGMENTS (main.py 71-86) in it
has_vendor_host(u) == u.base = VendorBase

\* main.py 434: one of VENDOR_KEYWORDS occurs in the lowered URL, host or not
has_vendor_keyword(u) == u.base = VendorBase \/ u.path = "/jobs-personio"

ResolveHomepageSignal ==
  LET matched_keyword_value == homepage_detection[2]
      all_job_links == extract_job_links(homepage_html)
      vendor_links == SelectSeq(all_job_links, has_vendor_keyword)
      found ==
        IF matched_keyword_value[1] \in VENDOR_KEYWORDS
        THEN IF vendor_links = <<>> THEN None
             ELSE Some(canonicalize_url(vendor_links[1]))
        ELSE IF all_job_links # <<>>
             THEN IF all_job_links[1].frag # "" THEN Some(all_job_links[1])
                  ELSE Some(canonicalize_url(all_job_links[1]))
             ELSE Some(canonicalize_url(base_url))
  IN
  /\ place_pc = "RESOLVE_HOMEPAGE_SIGNAL"
  /\ hiring_flag' = (found # None)
  /\ job_page_url' = found
  /\ matched_keyword' = IF found # None THEN matched_keyword_value ELSE matched_keyword
  /\ evidence_snippet' = IF found # None THEN homepage_detection[3] ELSE evidence_snippet
  /\ ReturnResult(ScrapeResult(found, found # None,
                               IF found # None THEN homepage_detection[3]
                               ELSE evidence_snippet,
                               IF found # None THEN matched_keyword_value
                               ELSE matched_keyword,
                               http_status))
  /\ UNCHANGED <<max_job_links, outstanding, fetches, requested, fetch_raised, page_vars,
                 http_status, tried_urls, idx, job_result, place_exc>>
  /\ UNCHANGED <<crawler_vars, other_vars>>

(***************************************************************************)
(* Part III.  A run over the venues.                                       *)
(***************************************************************************)
NumVenues == 2         \* the places of a run
NumWorkers == 2        \* the workers a pool has at most
QueueFactor == 5       \* maxsize = max(1, concurrency * 5)

Venues == 1..NumVenues
Workers == 1..NumWorkers

\* app.py 639: num_workers = max(1, concurrency)
num_workers == Max(1, concurrency)

\* app.py 638: the maxsize of the queue
queue_maxsize == Max(1, concurrency * QueueFactor)

\* the places a discovery can list: one more than the queue of one worker holds
Places == 1..Max(NumVenues, QueueFactor + 1)

\* crawler.py 38-201: the methods AsyncCrawler defines
AsyncCrawlerMethods ==
  {"__init__", "__aenter__", "__aexit__", "aclose", "fetch", "_get_with_retries",
   "_build_result"}

\* app.py 572-580, 609-611, 659, 674, 709: the fields of the job's record
\* next to its status; phase "" until _execute_job sets it
JobRecord(phase, total, processed, found) ==
  [phase |-> phase, total |-> total, processed |-> processed, found |-> found]

\* models.py 8-18: the place, with its website by its length
Place(name, website_len) == [name |-> name, website_len |-> website_len]

VenuePlace(v) == Place(v, 1 + (v % 2))

\* models.py 21-31: the ScrapeResult by the fields a run reads
RunResult(place, hiring, jpu) ==
  [kind |-> "result", place |-> place, hiring |-> hiring, job_page_url |-> jpu]

\* a venue before, during and after _process_place where that gave no result
VenueIs(k) == [kind |-> k, place |-> Place(0, 0), hiring |-> FALSE, job_page_url |-> None]

\* the job pages the venues of a run come to
RunPages ==
  {Url(SiteRoot, "/jobs"), UrlFrag(SiteRoot, "/jobs/", "jobs"), Url(VendorBase, "/v")}

\* main.py 304-475: what _process_place ends with: a result with a job page, a
\* result without (no signal, or the homepage's error), or an exception
VenueOutcomes(v) ==
  {RunResult(VenuePlace(v), TRUE, Some(p)) : p \in RunPages}
    \cup {RunResult(VenuePlace(v), FALSE, None), VenueIs("raised")}

\* list.remove(x): the list without the first of its items equal to x
list_remove(q, x) ==
  IF \A k \in 1..Len(q) : q[k] # x THEN q
  ELSE LET first == CHOOSE k \in 1..Len(q) : q[k] = x /\ \A j \in 1..(k - 1) : q[j] # x
       IN SubSeq(q, 1, first - 1) \o SubSeq(q, first + 1, Len(q))

\* main.py 521: _canonicalize_url(result.job_page_url) or result.job_page_url
canonical_job_url(u) == IF canonicalize_url(u) # EmptyUrl THEN canonicalize_url(u) ELSE u

\* main.py 530: a variant that also replaces on equal length
shorter_website_or_equal(record, existing) ==
  record.place.website_len <= existing.place.website_len

shorter_website(record, existing) ==
  record.place.website_len < existing.place.website_len

\* main.py 514-534: the loop of _deduplicate_by_job_page from its item i on,
\* with seen_job_pages and deduplicated as they are then
RECURSIVE dedup_loop(_, _, _, _)
dedup_loop(records, i, seen, deduplicated) ==
  IF i > Len(records) THEN deduplicated
  ELSE LET record == records[i] IN
       IF record.job_page_url = None
       THEN dedup_loop(records, i + 1, seen, Append(deduplicated, record))
       ELSE LET key == canonical_job_url(record.job_page_url[1]) IN
            IF key \notin DOMAIN seen
            THEN dedup_loop(records, i + 1, seen @@ (key :> record),
                            Append(deduplicated, record))
            ELSE IF shorter_website(record, seen[key])
            THEN dedup_loop(records, i + 1, [seen EXCEPT ![key] = record],
                            Append(list_remove(deduplicated, seen[key]), record))
            ELSE dedup_loop(records, i + 1, seen, deduplicated)

\* main.py 505-536; the empty dict is the function with no argument
deduplicate_by_job_page(records) == dedup_loop(records, 1, <<>>, <<>>)

\* main.py 496-503, app.py 662-669: the row of a record
Row(res) == [name |-> res.place.name, job_page_url |-> res.job_page_url]

RowsOf(records) == [i \in 1..Len(records) |-> Row(records[i])]

InitRun ==
  /\ run_mode = "idle"
  /\ venue_state = [v \in Places |-> VenueIs("pending")]
  /\ gather_state = "waiting"
  /\ job_status = ""
  /\ job_record = JobRecord("", 0, 0, 0)
  /\ job_known = FALSE
  /\ producer_pc = "slot"
  /\ next_place = 1
  /\ sentinels_put = 0
  /\ queue = <<>>
  /\ worker_pc = [w \in Workers |-> "get"]
  /\ worker_item = [w \in Workers |-> 0]
  /\ seen_job_pages = {}
  /\ rows = <<>>
  /\ output_exists = FALSE

InitCall ==
  /\ fn = ""
  /\ arg = <<>>
  /\ ret = <<>>

run_frame == UNCHANGED <<crawler_vars, place_vars, call_vars>>

call_frame == UNCHANGED <<crawler_vars, place_vars, run_vars>>

(***************************************************************************)
(* Part IV.  Functions without state, called once on an argument.          *)
(***************************************************************************)
MaxRecords == 3        \* the ScrapeResults handed to _deduplicate_by_job_page

\* the lengths of place.website
WebsiteLens == {1, 2}

\* job_page_url: none; URLs with one canonical form; another URL; a URL
\* without host, as urljoin leaves href="skype:jobs#a"
DedupUrls ==
  {None, Some(Url(SiteRoot, "/jobs")), Some(UrlFrag(SiteRoot, "/jobs", "a")),
   Some(Url(SiteRoot, "/jobs/")), Some(Url(VendorBase, "/v")),
   Some(UrlFrag("", "skype:jobs", "a")), Some(UrlFrag("", "skype:jobs", "b"))}

\* the lists of n results, the i-th of place i
RecordLists(n) ==
  {[i \in 1..n |-> RunResult(Place(i, f[i][1]), TRUE, f[i][2])] :
     f \in [1..n -> WebsiteLens \X DedupUrls]}

MaxLen == 5            \* the characters of a string handed to _sanitize_url

\* the characters by what the code asks of them: a control character that
\* is whitespace (tab, newline), one that is not (NUL, DEL), the space,
\* whitespace that is neither (NBSP), any other character
Chars == {"tab", "nul", "sp", "nbsp", "a"}

\* crawler.py 213: [\x00-\x1f\x7f]
is_control(c) == c \in {"tab", "nul"}

\* str.strip(): what Python takes for whitespace
is_whitespace(c) == c \in {"tab", "sp", "nbsp"}

\* re.sub(r"[\x00-\x1f\x7f]", "", url)
without_control(x) == SelectSeq(x, LAMBDA c : ~is_control(c))

\* str.strip()
RECURSIVE strip(_)
strip(x) ==
  IF x = <<>> THEN x
  ELSE IF is_whitespace(Head(x)) THEN strip(Tail(x))
  ELSE IF is_whitespace(x[Len(x)]) THEN strip(SubSeq(x, 1, Len(x) - 1))
  ELSE x

\* a variant of the replacement that leaves the spaces
spaces_kept(x) == x

\* crawler.py 215-216: cleaned.replace(" ", "%20")
RECURSIVE spaces_replaced(_)
spaces_replaced(x) ==
  IF x = <<>> THEN x
  ELSE (IF Head(x) = "sp" THEN <<"%", "2", "0">> ELSE <<Head(x)>>)
         \o spaces_replaced(Tail(x))

\* crawler.py 203-217
sanitize_url(x) ==
  IF x = <<>> THEN x
  ELSE spaces_replaced(strip(without_control(x)))

\* the strings of n characters
Strings(n) == [1..n -> Chars]

(***************************************************************************)
(* crawler.py 100: _sanitize_url(url)                                      *)
(***************************************************************************)
CallSanitize(x) ==
  /\ fn = ""
  /\ fn' = "_sanitize_url"
  /\ arg' = x
  /\ ret' = sanitize_url(x)
  /\ call_frame

MaxUrlLen == 5         \* the characters of a URL after its scheme and host

\* A URL as the string it is: "O" for scheme and host ("https://a.com"), then
\* the characters that matter to urlparse and to rstrip, "x" for any other
UrlChars == {"/", "x", "?", "#"}

\* the URLs with scheme and host of n characters after these: what follows
\* the host starts its path, its query or its fragment
UrlStrings(n) ==
  {<<"O">> \o rest : rest \in {r \in [1..n -> UrlChars] : r = <<>> \/ r[1] # "x"}}

\* a URL without scheme and host
RelativeUrl == <<"/", "x">>

\* the index of the first character of x that is in S, Len(x) + 1 without one
first_of(x, S) ==
  IF \A i \in 1..Len(x) : x[i] \notin S THEN Len(x) + 1
  ELSE CHOOSE i \in 1..Len(x) : x[i] \in S /\ \A j \in 1..(i - 1) : x[j] \notin S

\* urlparse(url).path of a URL with scheme and host
parsed_path(x) == SubSeq(Tail(x), 1, first_of(Tail(x), {"?", "#"}) - 1)

\* urlparse(url).query
parsed_query(x) ==
  LET rest == Tail(x)
      from == first_of(rest, {"?", "#"})
      upto == first_of(rest, {"#"})
  IN IF from <= Len(rest) /\ rest[from] = "?" THEN SubSeq(rest, from + 1, upto - 1)
     ELSE <<>>

\* main.py 661: parsed._replace(fragment="").geturl(); an empty query loses
\* its "?"
geturl_without_fragment(x) ==
  <<"O">> \o parsed_path(x)
    \o (IF parsed_query(x) # <<>> THEN <<"?">> \o parsed_query(x) ELSE <<>>)

\* str.rstrip("/")
RECURSIVE rstrip_slash(_)
rstrip_slash(x) ==
  IF x # <<>> /\ x[Len(x)] = "/" THEN rstrip_slash(SubSeq(x, 1, Len(x) - 1)) ELSE x

\* main.py 657-664, on the string
canonicalize_url_string(x) ==
  IF x = <<>> \/ Head(x) # "O" THEN <<>>
  ELSE IF parsed_path(x) # <<>> /\ parsed_path(x) # <<"/">>
  THEN rstrip_slash(geturl_without_fragment(x))
  ELSE geturl_without_fragment(x)

(***************************************************************************)
(* main.py 333, 358, 373: _canonicalize_url(url)                           *)
(***************************************************************************)
CallCanonicalize(x) ==
  /\ fn = ""
  /\ fn' = "_canonicalize_url"
  /\ arg' = x
  /\ ret' = canonicalize_url_string(x)
  /\ call_frame

(***************************************************************************)
(* main.py 353, 374, 409: detect_hiring_signals(html)                      *)
(***************************************************************************)
CallDetect(text) ==
  /\ fn = ""
  /\ fn' = "detect_hiring_signals"
  /\ arg' = text
  /\ ret' = detect_hiring_signals(text)
  /\ call_frame

(***************************************************************************)
(* main.py 187: _deduplicate_by_job_page(hiring_venues)                    *)
(***************************************************************************)
CallDeduplicate(records) ==
  /\ fn = ""
  /\ fn' = "_deduplicate_by_job_page"
  /\ arg' = records
  /\ ret' = deduplicate_by_job_page(records)
  /\ call_frame

(***************************************************************************)
(* main.py 288-300: _scrape_places makes a task of every place.            *)
(***************************************************************************)
StartCli ==
  /\ run_mode = "idle"
  /\ run_mode' = "cli"
  /\ venue_state' = [v \in Places |->
                       IF v \in Venues THEN VenueIs("running") ELSE venue_state[v]]
  /\ UNCHANGED <<gather_state, job_status, job_known, producer_pc, next_place,
                 sentinels_put, queue, worker_pc, worker_item, seen_job_pages, rows,
                 output_exists>>
  /\ UNCHANGED job_record
  /\ run_frame

\* the results of the tasks, in the order of the places
gathered(states) == [v \in Venues |-> states[v]]

(***************************************************************************)
(* main.py 301, 177: a task ends.  gather returns when all have, and       *)
(* raises with the first that raises; asyncio.run then cancels the tasks   *)
(* still running and main ends with the exception.                         *)
(***************************************************************************)
CliTaskEnds(v, out) ==
  /\ run_mode = "cli"
  /\ gather_state = "waiting"
  /\ venue_state[v].kind = "running"
  /\ IF out.kind = "raised"
     THEN /\ venue_state' = [u \in Places |->
                               IF u = v THEN out
                               ELSE IF venue_state[u].kind = "running"
                               THEN VenueIs("cancelled")
                               ELSE venue_state[u]]
          /\ gather_state' = "raised"
     ELSE /\ venue_state' = [venue_state EXCEPT ![v] = out]
          /\ gather_state' =
               IF \A u \in Venues \ {v} : venue_state[u].kind = "result"
               THEN "returned" ELSE "waiting"
  /\ UNCHANGED <<run_mode, job_status, job_known, producer_pc, next_place,
                 sentinels_put, queue, worker_pc, worker_item, seen_job_pages, rows,
                 output_exists>>
  /\ UNCHANGED job_record
  /\ run_frame

(***************************************************************************)
(* main.py 186-189: the hiring venues, without duplicates, are written.    *)
(***************************************************************************)
CliWrite ==
  /\ run_mode = "cli"
  /\ gather_state = "returned"
  /\ ~output_exists
  /\ LET place_processing == gathered(venue_state)
         hiring_venues == SelectSeq(place_processing, LAMBDA r : r.hiring)
     IN rows' = RowsOf(deduplicate_by_job_page(hiring_venues))
  /\ output_exists' = TRUE
  /\ UNCHANGED <<run_mode, venue_state, gather_state, job_status, job_known,
                 producer_pc, next_place, sentinels_put, queue, worker_pc, worker_item,
                 seen_job_pages>>
  /\ UNCHANGED job_record
  /\ run_frame

(***************************************************************************)
(* app.py 1684-1716: POST /run makes the job, queued, and hands            *)
(* _run_job_sync to a thread of the pool.                                  *)
(***************************************************************************)
StartWeb ==
  /\ run_mode = "idle"
  /\ run_mode' = "web"
  /\ job_known' = TRUE
  /\ job_status' = "queued"
  /\ UNCHANGED <<venue_state, gather_state, job_record, producer_pc, next_place,
                 sentinels_put, queue, worker_pc, worker_item, seen_job_pages, rows,
                 output_exists>>
  /\ run_frame

\* the variables the steps of the job's thread before the scan leave alone
job_frame ==
  /\ UNCHANGED <<run_mode, venue_state, gather_state, job_known, next_place,
                 sentinels_put, queue, worker_pc, worker_item, seen_job_pages, rows>>
  /\ run_frame

(***************************************************************************)
(* app.py 742-745: _run_job_sync has its slot and looks the job up: a job  *)
(* that is gone or cancelled is not run.                                   *)
(***************************************************************************)
RunJobSync ==
  /\ run_mode = "web"
  /\ producer_pc = "slot"
  /\ producer_pc' = IF ~job_known \/ job_status = "cancelled" THEN "over" ELSE "start"
  /\ UNCHANGED <<job_status, job_record, output_exists>>
  /\ job_frame

(***************************************************************************)
(* app.py 746: job["status"] = "running", on the record line 743 got.      *)
(***************************************************************************)
MarkRunning ==
  /\ run_mode = "web"
  /\ producer_pc = "start"
  /\ job_status' = "running"
  /\ producer_pc' = "execute"
  /\ UNCHANGED <<job_record, output_exists>>
  /\ job_frame

(***************************************************************************)
(* app.py 569-571: _execute_job looks the job up again.                    *)
(***************************************************************************)
ExecuteJob ==
  /\ run_mode = "web"
  /\ producer_pc = "execute"
  /\ producer_pc' = IF ~job_known \/ job_status = "cancelled" THEN "over" ELSE "update"
  /\ UNCHANGED <<job_status, job_record, output_exists>>
  /\ job_frame

(***************************************************************************)
(* app.py 572-580: job_record.update(...)                                  *)
(***************************************************************************)
UpdateRecord ==
  /\ run_mode = "web"
  /\ producer_pc = "update"
  /\ job_status' = "running"
  /\ job_record' = JobRecord("listing", 0, 0, 0)
  /\ producer_pc' = "listing"
  /\ UNCHANGED output_exists
  /\ job_frame

(***************************************************************************)
(* app.py 590-591: the check before the discovery.                         *)
(***************************************************************************)
BeforeDiscovery ==
  /\ run_mode = "web"
  /\ producer_pc = "listing"
  /\ producer_pc' = IF job_status = "cancelled" THEN "over" ELSE "discovery"
  /\ UNCHANGED <<job_status, job_record, output_exists>>
  /\ job_frame

(***************************************************************************)
(* app.py 592-611: fetch_places, or fetch_places_by_grid after it, returns *)
(* n places (after the limit), or the discovery fails.                     *)
(***************************************************************************)
Discovery(ok, n) ==
  /\ run_mode = "web"
  /\ producer_pc = "discovery"
  /\ IF ok
     THEN /\ job_record' = [job_record EXCEPT !.total = n, !.phase = "scanning"]
          /\ producer_pc' = "scanning"
          /\ UNCHANGED job_status
     ELSE /\ job_status' = "error"
          /\ producer_pc' = "over"
          /\ UNCHANGED job_record
  /\ UNCHANGED output_exists
  /\ job_frame

(***************************************************************************)
(* app.py 624-625: the check after the discovery.                          *)
(***************************************************************************)
AfterDiscovery ==
  /\ run_mode = "web"
  /\ producer_pc = "scanning"
  /\ producer_pc' = IF job_status = "cancelled" THEN "over" ELSE "open"
  /\ UNCHANGED <<job_status, job_record, output_exists>>
  /\ job_frame

(***************************************************************************)
(* app.py 627-639, 678: the crawler is made, the output opened, the header *)
(* written, the workers started.                                           *)
(***************************************************************************)
OpenOutput ==
  /\ run_mode = "web"
  /\ producer_pc = "open"
  /\ output_exists' = TRUE
  /\ producer_pc' = "put"
  /\ UNCHANGED <<job_status, job_record>>
  /\ job_frame

(***************************************************************************)
(* app.py 679-683: the producer's loop: it ends when the job is cancelled  *)
(* or the places are through, else it puts the next place.                 *)
(***************************************************************************)
WebProduce ==
  /\ run_mode = "web"
  /\ producer_pc = "put"
  /\ IF next_place > job_record.total \/ job_status = "cancelled"
     THEN /\ producer_pc' = "sentinels"
          /\ UNCHANGED <<queue, next_place>>
     ELSE /\ Len(queue) < queue_maxsize
          /\ queue' = Append(queue, next_place)
          /\ next_place' = next_place + 1
          /\ UNCHANGED producer_pc
  /\ UNCHANGED <<run_mode, venue_state, gather_state, job_status, job_known,
                 sentinels_put, worker_pc, worker_item, seen_job_pages, rows,
                 output_exists>>
  /\ UNCHANGED job_record
  /\ run_frame

\* a variant that puts one None, whatever the number of workers
put_one_sentinel ==
  /\ run_mode = "web"
  /\ producer_pc = "sentinels"
  /\ IF sentinels_put < 1
     THEN /\ Len(queue) < queue_maxsize
          /\ queue' = Append(queue, 0)
          /\ sentinels_put' = sentinels_put + 1
          /\ UNCHANGED producer_pc
     ELSE /\ producer_pc' = "join"
          /\ UNCHANGED <<queue, sentinels_put>>
  /\ UNCHANGED <<run_mode, venue_state, gather_state, job_status, job_record, job_known,
                 next_place, worker_pc, worker_item, seen_job_pages, rows,
                 output_exists>>
  /\ run_frame

(***************************************************************************)
(* app.py 684-686: one None per worker.                                    *)
(***************************************************************************)
WebPutSentinel ==
  /\ run_mode = "web"
  /\ producer_pc = "sentinels"
  /\ IF sentinels_put < num_workers
     THEN /\ Len(queue) < queue_maxsize
          /\ queue' = Append(queue, 0)
          /\ sentinels_put' = sentinels_put + 1
          /\ UNCHANGED producer_pc
     ELSE /\ producer_pc' = "join"
          /\ UNCHANGED <<queue, sentinels_put>>
  /\ UNCHANGED <<run_mode, venue_state, gather_state, job_status, job_known,
                 next_place, worker_pc, worker_item, seen_job_pages, rows,
                 output_exists>>
  /\ UNCHANGED job_record
  /\ run_frame

(***************************************************************************)
(* app.py 642-649: a worker takes an item: None ends it, a place of a      *)
(* cancelled job is dropped, another place is processed.                   *)
(***************************************************************************)
WorkerGet(w) ==
  /\ run_mode = "web"
  /\ producer_pc \in {"put", "sentinels", "join"}
  /\ w <= num_workers
  /\ worker_pc[w] = "get"
  /\ queue # <<>>
  /\ queue' = Tail(queue)
  /\ IF Head(queue) = 0
     THEN /\ worker_pc' = [worker_pc EXCEPT ![w] = "returned"]
          /\ UNCHANGED <<worker_item, venue_state>>
     ELSE IF job_status = "cancelled"
     THEN /\ venue_state' = [venue_state EXCEPT ![Head(queue)] = VenueIs("dropped")]
          /\ UNCHANGED <<worker_pc, worker_item>>
     ELSE /\ worker_pc' = [worker_pc EXCEPT ![w] = "process"]
          /\ worker_item' = [worker_item EXCEPT ![w] = Head(queue)]
          /\ venue_state' = [venue_state EXCEPT ![Head(queue)] = VenueIs("running")]
  /\ UNCHANGED <<run_mode, gather_state, job_status, job_known, producer_pc,
                 next_place, sentinels_put, seen_job_pages, rows, output_exists>>
  /\ UNCHANGED job_record
  /\ run_frame

\* a variant that remembers the job pages as they are written, not canonical
worker_finish_raw_key(w, out) ==
  /\ run_mode = "web"
  /\ worker_pc[w] = "process"
  /\ venue_state' = [venue_state EXCEPT ![worker_item[w]] = out]
  /\ IF out.kind = "result" /\ out.hiring /\ out.job_page_url # None
     THEN LET canonical == out.job_page_url[1] IN
          IF canonical \notin seen_job_pages
          THEN /\ seen_job_pages' = seen_job_pages \cup {canonical}
               /\ rows' = Append(rows, Row(out))
               /\ job_record' = [job_record EXCEPT !.processed = @ + 1, !.found = @ + 1]
          ELSE /\ job_record' = [job_record EXCEPT !.processed = @ + 1]
               /\ UNCHANGED <<seen_job_pages, rows>>
     ELSE /\ job_record' = [job_record EXCEPT !.processed = @ + 1]
          /\ UNCHANGED <<seen_job_pages, rows>>
  /\ worker_pc' = [worker_pc EXCEPT ![w] = "get"]
  /\ UNCHANGED <<run_mode, gather_state, job_status, job_known, producer_pc,
                 next_place, sentinels_put, queue, worker_item, output_exists>>
  /\ run_frame

(***************************************************************************)
(* app.py 650-676: _process_place is over for the worker's place; an       *)
(* exception of it is caught and leaves no result; a hiring result with a  *)
(* job page not seen before becomes a row.                                 *)
(***************************************************************************)
WorkerFinish(w, out) ==
  /\ run_mode = "web"
  /\ worker_pc[w] = "process"
  /\ venue_state' = [venue_state EXCEPT ![worker_item[w]] = out]
  /\ IF out.kind = "result" /\ out.hiring /\ out.job_page_url # None
     THEN LET canonical == canonical_job_url(out.job_page_url[1]) IN
          IF canonical \notin seen_job_pages
          THEN /\ seen_job_pages' = seen_job_pages \cup {canonical}
               /\ rows' = Append(rows, Row(out))
               /\ job_record' = [job_record EXCEPT !.processed = @ + 1, !.found = @ + 1]
          ELSE /\ job_record' = [job_record EXCEPT !.processed = @ + 1]
               /\ UNCHANGED <<seen_job_pages, rows>>
     ELSE /\ job_record' = [job_record EXCEPT !.processed = @ + 1]
          /\ UNCHANGED <<seen_job_pages, rows>>
  /\ worker_pc' = [worker_pc EXCEPT ![w] = "get"]
  /\ UNCHANGED <<run_mode, gather_state, job_status, job_known, producer_pc,
                 next_place, sentinels_put, queue, worker_item, output_exists>>
  /\ run_frame

(***************************************************************************)
(* app.py 687-710, 749-756: the queue is joined and the workers have       *)
(* returned; the finally clause calls crawler.clear_host_state().  Where   *)
(* AsyncCrawler has the method the job is done unless it was cancelled;    *)
(* where it has not, the call raises AttributeError, which neither         *)
(* _execute_job nor _run_job_sync catches, and the thread ends.            *)
(***************************************************************************)
WebJoined ==
  /\ run_mode = "web"
  /\ producer_pc = "join"
  /\ queue = <<>>
  /\ \A w \in 1..num_workers : worker_pc[w] = "returned"
  /\ IF "clear_host_state" \in AsyncCrawlerMethods
     THEN /\ producer_pc' = "over"
          /\ IF job_status = "cancelled"
             THEN UNCHANGED <<job_status, job_record>>
             ELSE /\ job_status' = "done"
                  /\ job_record' = [job_record EXCEPT !.phase = "complete"]
     ELSE /\ producer_pc' = "raised"
          /\ UNCHANGED <<job_status, job_record>>
  /\ UNCHANGED <<run_mode, venue_state, gather_state, job_known, next_place,
                 sentinels_put, queue, worker_pc, worker_item, seen_job_pages, rows,
                 output_exists>>
  /\ run_frame

(***************************************************************************)
(* app.py 1868-1904: POST /cancel/{job_id}, served by another thread: the  *)
(* flag is set; an output without a data row is deleted and the job        *)
(* forgotten.                                                              *)
(***************************************************************************)
Cancel ==
  /\ run_mode = "web"
  /\ job_known
  /\ job_status' = "cancelled"
  /\ IF output_exists /\ rows # <<>>
     THEN UNCHANGED <<output_exists, job_known>>
     ELSE /\ output_exists' = FALSE
          /\ job_known' = FALSE
  /\ UNCHANGED <<run_mode, venue_state, gather_state, producer_pc, next_place,
                 sentinels_put, queue, worker_pc, worker_item, seen_job_pages, rows>>
  /\ UNCHANGED job_record
  /\ run_frame

\* the data rows of the file at the output path
output_rows == IF output_exists THEN rows ELSE <<>>

Init == InitCrawler /\ InitPlace /\ InitRun /\ InitCall

\* The steps of the calls T in an environment: the URLs U they are given, the
\* jitters J drawn, the answers RO to a robots.txt GET and ST to a GET.
CoreSteps(T, U, J, RO, ST) ==
  \/ \E t \in T : Return(t)
  \/ \E t \in T, u \in U : StartFetch(t, u)
  \/ \E t \in T, j \in J : AcquireHost(t, j)
  \/ \E t \in T, j \in J : AcquireRobotsLock(t, j)
  \/ \E t \in T, outcome \in RO, j \in J :
       \E body \in (IF outcome = Some(200) THEN Bodies ELSE {BodyEmpty}) :
         RobotsResponse(t, outcome, body, j)
  \/ \E t \in T, j \in J : WakePace(t, j)
  \/ \E t \in T : WakeJitter(t)
  \/ \E t \in T, status \in ST, j \in J :
       \E retry_after \in (IF status = 429 THEN RetryAfters ELSE {None}) :
         GetResponse(t, status, retry_after, j)

\* The steps of a network that also fails
RetrySteps(T, J) ==
  \/ \E t \in T, j \in J : GetError(t, j)
  \/ \E t \in T : WakeRetry(t)

\* Concurrent calls on two hosts; robots.txt is missing or forbidden.
Next ==
  \/ CoreSteps(Tasks, {UrlAx, UrlBx, UrlBad}, {JitterMin}, {Some(404), Some(403)}, Statuses)
  \/ RetrySteps(Tasks, {JitterMin})
  \/ Elapse

Spec == Init /\ [][Next]_vars

\* More calls than one host has permits, all to host a, over a network that
\* answers 200 or fails.
NextHost ==
  \/ CoreSteps(HostTasks, {UrlAx, UrlHx}, {JitterMin}, {Some(404)}, {200})
  \/ RetrySteps(HostTasks, {JitterMin})
  \/ Elapse

SpecHost == Init /\ [][NextHost]_vars

\* Every answer to the robots.txt GET, over a network that answers 200.
NextRobots ==
  \/ CoreSteps(Tasks, {UrlAx, UrlAp, UrlHx}, {JitterMin}, RobotsOutcomes, {200})
  \/ Elapse

SpecRobots == Init /\ [][NextRobots]_vars

\* Time counted in ticks.
NextTimed ==
  \/ CoreSteps(Tasks, {UrlAx, UrlBx}, Jitter, {Some(404)}, {200, 429})
  \/ RetrySteps(Tasks, Jitter)
  \/ Tick

SpecTimed == Init /\ [][NextTimed]_vars

\* One venue: the pipeline of _process_place over a crawler that is not modelled
\* beyond what its fetch() can end with.
NextPlace ==
  \/ \E mjl \in 0..MaxJobLinksCfg : FetchHomepage(mjl)
  \/ \E res \in HomepageOutcomes : HomepageResult(res)
  \/ ExtractAndClassify
  \/ ProbeCandidate
  \/ CandidateResult
  \/ ProbeFallback
  \/ FallbackResult
  \/ ResolveHomepageSignal

\* The crawler is idle, with one configuration; every awaited fetch ends, and
\* the coroutine runs on when it can.
InitVenue == Init /\ concurrency = MaxConcurrency /\ max_attempts = MaxAttemptsCfg

SpecPlace == InitVenue /\ [][NextPlace]_vars /\ WF_vars(NextPlace)

\* More calls than there are global permits, to two hosts, over a network
\* that answers 200.
NextMixed ==
  \/ CoreSteps(MixedTasks, {UrlAx, UrlBx}, {JitterMin}, {Some(404)}, {200})
  \/ Elapse

SpecMixed == InitVenue /\ [][NextMixed]_vars

\* Calls to two hosts and two origins of one host, with fewer global permits
\* than calls or as many; robots.txt is missing or forbidden, the network
\* answers 200 or fails, with retries.  The event loop runs every task that
\* can run, and every GET and every sleep comes to its end.
NextLive ==
  \/ CoreSteps(HostTasks, {UrlAx, UrlHx, UrlBx}, {JitterMin}, {Some(404), Some(403)}, {200})
  \/ RetrySteps(HostTasks, {JitterMin})
  \/ Elapse

InitLive == Init /\ max_attempts = MaxAttemptsCfg /\ concurrency < NumHostTasks

SpecLive == InitLive /\ [][NextLive]_vars /\ WF_vars(NextLive)

\* A run of the command line or of the web application over the venues; the
\* job can be cancelled at any moment.
NextRun ==
  \/ StartCli
  \/ \E v \in Venues : \E out \in VenueOutcomes(v) : CliTaskEnds(v, out)
  \/ CliWrite
  \/ StartWeb
  \/ RunJobSync
  \/ MarkRunning
  \/ ExecuteJob
  \/ UpdateRecord
  \/ BeforeDiscovery
  \/ \E ok \in BOOLEAN : Discovery(ok, NumVenues)
  \/ AfterDiscovery
  \/ OpenOutput
  \/ WebProduce
  \/ WebPutSentinel
  \/ \E w \in Workers : WorkerGet(w)
  \/ \E w \in Workers : \E out \in VenueOutcomes(worker_item[w]) : WorkerFinish(w, out)
  \/ WebJoined
  \/ Cancel

\* the pool has no more workers than the model has names for
InitRunners == Init /\ concurrency <= NumWorkers

SpecRun == InitRunners /\ [][NextRun]_vars

\* what _process_place ends with in SpecPool: a job page, or an exception
PoolOutcomes(v) ==
  {RunResult(VenuePlace(v), TRUE, Some(Url(SiteRoot, "/jobs"))), VenueIs("raised")}

\* the steps of the job's thread and of the coroutines of its event loop
PoolSteps ==
  \/ RunJobSync
  \/ MarkRunning
  \/ ExecuteJob
  \/ UpdateRecord
  \/ BeforeDiscovery
  \/ \E ok \in BOOLEAN : \E n \in {NumVenues, QueueFactor + 1} : Discovery(ok, n)
  \/ AfterDiscovery
  \/ OpenOutput
  \/ WebProduce
  \/ WebPutSentinel
  \/ \E w \in Workers : WorkerGet(w)
  \/ \E w \in Workers : \E out \in PoolOutcomes(worker_item[w]) : WorkerFinish(w, out)
  \/ WebJoined

\* A web job over as many places as the model has venues, or one more than
\* the queue of one worker holds; it can be cancelled at any moment.
NextPool ==
  \/ StartWeb
  \/ PoolSteps
  \/ Cancel

InitPool == InitRunners /\ max_attempts = MaxAttemptsCfg

\* The thread of the job runs on, the event loop runs every coroutine that
\* can run, and every _process_place comes to its end.
SpecPool == InitPool /\ [][NextPool]_vars /\ WF_vars(PoolSteps)

(***************************************************************************)
(* main.py 539-654: the links of a homepage are extracted, scored and      *)
(* ranked.  A link is <a href="scheme://host/path">text</a>; scores are    *)
(* counted in half points, so 1.5 is 3.                                    *)
(***************************************************************************)
MaxAnchors == 3

Link(s, h, p) == [scheme |-> s, host |-> h, path |-> p, frag |-> ""]

Anchor(s, h, p, t) == [href |-> Link(s, h, p), text |-> t]

\* main.py 330, 326: the host and the URL of the homepage
RankBaseHost == "v"
RankBaseUrl == Link("https", "v", "/")

\* the anchors a homepage can have
AnchorPool ==
  {Anchor("https", "v", "/careers", "Careers"), Anchor("https", "v", "/careers/", ""),
   Anchor("https", "v", "/team", "Our Team"), Anchor("https", "v", "/jobs.pdf", "Jobs"),
   Anchor("ftp", "v", "/careers", "Careers"), Anchor("https", "jobs.v", "/x", ""),
   Anchor("https", "v.lever.co", "/x", "Careers"), Anchor("https", "w", "/careers", ""),
   Anchor("https", "v", "/datenschutz", "Datenschutz"), Anchor("https", "v", "/x", "Careers"),
   Anchor("https", "w", "/x", "Careers"), Anchor("https", "v", "/", "Careers")}

RECURSIVE AnchorLists(_)
AnchorLists(n) ==
  IF n = 0 THEN {<<>>}
  ELSE {Append(q, a) : q \in AnchorLists(n - 1), a \in AnchorPool}

\* main.py 45, 47-69, 71-86, 611, 636
JOB_PAGE_KEYWORDS == SeqToSet(STRONG_KEYWORDS) \cup SeqToSet(WEAK_KEYWORDS)

NAVIGATION_BLOCKLIST ==
  {"impressum", "datenschutz", "privacy", "agb", "newsletter", "kontakt", "contact",
   "reservierung", "reservation", "events", "news", "blog", "home", "startseite",
   "zurück", "menu", "menü", "gutscheine", "shop", "presse", "press"}

VENDOR_HOST_FRAGMENTS ==
  {"jobs.personio.de", "lever.co", "greenhouse.io", "smartrecruiters.com", "join.com",
   "workable.com", "recruitee.com", "teamtailor", "ashbyhq", "bamboohr.com", "jobylon",
   "icims.com", "hirehive", "workday"}

job_subdomain_patterns ==
  {"jobs.", "careers.", "karriere.", "stellen.", "recruiting.", "hiring."}

job_context_indicators ==
  {"join", "hiring", "career", "karriere", "bewerb", "stellen", "job"}

image_extensions == {".pdf", ".jpg", ".jpeg", ".png", ".gif", ".webp"}

\* Of the strings the code looks for, those that occur in the lowered parts
\* of the links and in their lowered texts
LinkOccurs ==
  [part \in {"", "/", "/careers", "/careers/", "/datenschutz", "/jobs.pdf", "/team", "/x",
             "Careers", "Datenschutz", "Jobs", "Our Team", "https", "ftp", "jobs.v", "v",
             "v.lever.co", "w", "/Careers", "/X", "/menu", "/menu/"} |->
     CASE part \in {"/careers", "/careers/", "Careers", "/Careers"} -> {"career", "careers"}
       [] part \in {"/menu", "/menu/"} -> {"menu"}
       [] part \in {"/datenschutz", "Datenschutz"} -> {"datenschutz"}
       [] part \in {"/jobs.pdf", "Jobs", "jobs.v"} -> {"job", "jobs"}
       [] part = "/team" -> {"/team", "team"}
       [] part = "Our Team" -> {"team"}
       [] part = "v.lever.co" -> {"lever.co"}
       [] OTHER -> {}]

\* the patterns a host starts with, the extensions a path ends with
HostPrefix(h) == IF h = "jobs.v" THEN {"jobs."} ELSE {}

PathSuffix(p) == IF p = "/jobs.pdf" THEN {".pdf"} ELSE {}

in_text(text, needles) == LinkOccurs[text] \cap needles # {}

in_url(u, needles) ==
  (LinkOccurs[u.scheme] \cup LinkOccurs[u.host] \cup LinkOccurs[u.path]
     \cup LinkOccurs[u.frag]) \cap needles # {}

\* main.py 657-664 on a link
canonicalize_link(u) ==
  IF u.scheme = "" \/ u.host = "" THEN Link("", "", "")
  ELSE [u EXCEPT !.frag = "",
                 !.path = CASE @ = "/careers/" -> "/careers"
                            [] @ = "/menu/" -> "/menu"
                            [] OTHER -> @]

\* main.py 547-563: the loop over the anchors from the i-th on
RECURSIVE extract_loop(_, _, _, _)
extract_loop(anchors, i, seen, candidates) ==
  IF i > Len(anchors) THEN candidates
  ELSE LET canonical == canonicalize_link(anchors[i].href) IN
       IF canonical = Link("", "", "") \/ canonical \in seen
       THEN extract_loop(anchors, i + 1, seen, candidates)
       ELSE IF canonical.scheme \notin {"http", "https"}
       THEN extract_loop(anchors, i + 1, seen, candidates)
       ELSE extract_loop(anchors, i + 1, seen \cup {canonical},
                         Append(candidates, [url |-> canonical, text |-> anchors[i].text]))

\* main.py 539-565
extract_candidate_links(anchors) == extract_loop(anchors, 1, {}, <<>>)

\* main.py 104, 593
SCORE_THRESHOLD == 3
MinusInfinity == -1000

\* str.lower() on the parts of a URL that have capitals
lower_url(u) ==
  [u EXCEPT !.path = CASE @ = "/Careers" -> "/careers" [] @ = "/X" -> "/x" [] OTHER -> @]

\* main.py 620-631, in half points: the two tests follow each other
navigation_penalty(link, text) ==
  LET has_job_keyword_in_url == in_url(link, JOB_PAGE_KEYWORDS)
      has_job_keyword_in_text == in_text(text, JOB_PAGE_KEYWORDS)
      unexcused == ~(has_job_keyword_in_text \/ has_job_keyword_in_url)
  IN (IF in_text(text, NAVIGATION_BLOCKLIST) /\ unexcused THEN 5 ELSE 0)
   + (IF in_url(link, NAVIGATION_BLOCKLIST) /\ unexcused THEN 5 ELSE 0)

\* main.py 648-649, in half points: lower_url == base_url.lower()
self_link_penalty(link, page_url) ==
  IF lower_url(link) = lower_url(page_url) THEN 2 ELSE 0

\* main.py 584-654, for the page at page_url (base_url) on the host RankBaseHost
score_candidate_at(link, text, preselected_urls, page_url) ==
  LET has_job_keyword_in_url == in_url(link, JOB_PAGE_KEYWORDS)
      has_job_keyword_in_text == in_text(text, JOB_PAGE_KEYWORDS)
      has_job_context == in_text(text, job_context_indicators)
                           \/ in_url(link, job_context_indicators)
  IN IF link.scheme \notin {"http", "https"} THEN MinusInfinity
     ELSE IF PathSuffix(link.path) \cap image_extensions # {} THEN MinusInfinity
     ELSE (IF link \in preselected_urls THEN 3 ELSE 0)
        + (IF has_job_keyword_in_text THEN 5 ELSE 0)
        + (IF has_job_keyword_in_url THEN 3 ELSE 0)
        + (CASE link.host = "" -> 0
             [] HostPrefix(link.host) \cap job_subdomain_patterns # {} -> 10
             [] LinkOccurs[link.host] \cap VENDOR_HOST_FRAGMENTS # {} -> 6
             [] link.host # RankBaseHost -> -2
             [] OTHER -> 0)
        - navigation_penalty(link, text)
        - (IF (in_text(text, {"team"}) \/ in_url(link, {"/team"})) /\ ~has_job_context
           THEN 4 ELSE 0)
        - (IF link.frag # "" /\ LinkOccurs[link.frag] \cap JOB_PAGE_KEYWORDS = {}
           THEN 1 ELSE 0)
        - self_link_penalty(link, page_url)

\* main.py 576, 338-343: the page of the ranking is the homepage
score_candidate(link, text, preselected_urls) ==
  score_candidate_at(link, text, preselected_urls, RankBaseUrl)

CandidateLink(link, text, score) == [url |-> link, text |-> text, score |-> score]

\* main.py 575-578
RECURSIVE rank_loop(_, _, _, _)
rank_loop(candidates, i, preselected_urls, ranked) ==
  IF i > Len(candidates) THEN ranked
  ELSE LET score == score_candidate(candidates[i].url, candidates[i].text, preselected_urls)
       IN rank_loop(candidates, i + 1, preselected_urls,
                    IF score >= SCORE_THRESHOLD
                    THEN Append(ranked, CandidateLink(candidates[i].url, candidates[i].text,
                                                      score))
                    ELSE ranked)

\* the list left in the order it has
sort_left_alone(ranked) == ranked

\* main.py 580: list.sort(key = score, reverse = True) is stable, an element
\* goes behind those of its score
RECURSIVE sort_by_score(_)
sort_by_score(ranked) ==
  IF ranked = <<>> THEN <<>>
  ELSE LET top == CHOOSE i \in 1..Len(ranked) :
                    /\ \A j \in 1..Len(ranked) : ranked[j].score <= ranked[i].score
                    /\ \A j \in 1..(i - 1) : ranked[j].score < ranked[i].score
       IN <<ranked[top]>>
            \o sort_by_score(SubSeq(ranked, 1, top - 1) \o SubSeq(ranked, top + 1, Len(ranked)))

\* main.py 568-581
rank_candidate_links(candidates, preselected_urls) ==
  sort_by_score(rank_loop(candidates, 1, preselected_urls, <<>>))

(***************************************************************************)
(* main.py 336-342: _rank_candidates(_extract_candidate_links(html), ...)  *)
(* with the links extract_job_links preselected                            *)
(***************************************************************************)
CallRank(anchors, preselected_urls) ==
  /\ fn = ""
  /\ fn' = "_rank_candidates"
  /\ arg' = <<anchors, preselected_urls>>
  /\ ret' = rank_candidate_links(extract_candidate_links(anchors), preselected_urls)
  /\ call_frame

\* the anchors and the pages of a call of _score_candidate: the final URL of
\* a homepage is as the server gave it
ScoreAnchors ==
  AnchorPool \cup
    {Anchor("https", "v", "/x", "Datenschutz"), Anchor("https", "v", "/menu/", ""),
     Anchor("https", "v", "/menu", "Careers"), Anchor("https", "v", "/Careers", ""),
     Anchor("https", "v.lever.co", "/datenschutz", "Datenschutz"),
     Anchor("https", "v", "/X", "")}

ScoreBaseUrls ==
  {RankBaseUrl, Link("https", "v", "/careers"), Link("https", "v", "/menu/"),
   Link("https", "v", "/x")}

\* main.py 576: one call of _score_candidate in the loop of _rank_candidates,
\* on a candidate of _extract_candidate_links
CallScore(anchor, preselected_urls, page_url) ==
  /\ fn = ""
  /\ canonicalize_link(anchor.href) # Link("", "", "")
  /\ fn' = "_score_candidate"
  /\ arg' = <<canonicalize_link(anchor.href), anchor.text, preselected_urls, page_url>>
  /\ ret' = score_candidate_at(canonicalize_link(anchor.href), anchor.text,
                               preselected_urls, page_url)
  /\ call_frame

\* The arguments there are for a call: those of the set while no call was made
Args(S) == IF fn = "" THEN S ELSE {}

PreselectedSets == {{}, {Link("https", "v", "/careers")}, {Link("https", "w", "/careers")}}

\* One call of one of the functions, on any argument of the bounded sets
NextCall ==
  \/ \E n \in Args(0..MaxRecords) : \E records \in RecordLists(n) : CallDeduplicate(records)
  \/ \E n \in Args(0..MaxLen) : \E x \in Strings(n) : CallSanitize(x)
  \/ \E n \in Args(0..MaxUrlLen) : \E x \in UrlStrings(n) \cup {RelativeUrl} :
       CallCanonicalize(x)
  \/ \E text \in Args(SUBSET Phrases) : CallDetect(text)
  \/ \E n \in Args(0..MaxAnchors) : \E anchors \in AnchorLists(n) :
       \E preselected_urls \in PreselectedSets : CallRank(anchors, preselected_urls)
  \/ \E anchor \in Args(ScoreAnchors) : \E preselected_urls \in PreselectedSets :
       \E page_url \in ScoreBaseUrls : CallScore(anchor, preselected_urls, page_url)

\* the functions read nothing of the crawler: one crawler is enough
SpecCall == InitVenue /\ [][NextCall]_vars

(***************************************************************************)
(* Properties of AsyncCrawler.fetch and RobotsCache.                       *)
(***************************************************************************)
\* the call holds a permit of the global semaphore
PastGlobal(t) ==
  pc[t] \in {"wait_host", "wait_lock", "robots_get", "sleep_pace", "sleep_jitter",
             "get", "sleep_retry"}

\* the call holds a permit of its host's semaphore
HoldsHost(t) ==
  pc[t] \in {"wait_lock", "robots_get", "sleep_pace", "sleep_jitter", "get",
             "sleep_retry"}

\* C1: fetch never raises: whatever the URL, the network and the configured
\* attempt count, a call that is over has returned a FetchResult.
C1_FetchNeverRaises == \A t \in Calls : pc[t] = "done" => result[t].kind = "returned"

\* C2: at any time, the calls past the global permit number at most the
\* configured concurrency.
C2_GlobalConcurrencyBound == Cardinality({t \in Calls : PastGlobal(t)}) <= concurrency

\* two calls hold the two global permits there are, and a third call waits
C2_Witness ==
  /\ concurrency = 2
  /\ semaphore = 0
  /\ Cardinality({t \in HostTasks : PastGlobal(t)}) = 2
  /\ \E t \in HostTasks : pc[t] = "idle"

\* C3: at any time, at most 2 calls hold the permit of one hostname.
C3_HostConcurrencyBound ==
  \A h \in Hosts : Cardinality({t \in Calls : HoldsHost(t) /\ hostname(url[t]) = h}) <= 2

\* two calls of different origins hold host a's permits, a third waits for one
C3_Witness ==
  \E t1, t2, t3 \in Calls :
    /\ HoldsHost(t1) /\ url[t1] = UrlAx
    /\ HoldsHost(t2) /\ url[t2] = UrlHx
    /\ pc[t3] = "wait_host" /\ hostname(url[t3]) = "a"

\* C4: two consecutive GETs dispatched to one host are at least the minimum
\* interval apart: a GET is sent only when the last one to its host was sent at
\* least MinInterval ago.
C4_MinIntervalBetweenDispatches ==
  [][\A t \in Calls :
       gets'[t] > gets[t] => since_dispatch[hostname(url[t])] >= MinInterval]_vars

\* C5: at most one GET of <origin>/robots.txt is sent per origin, and an
\* origin's recorded robots state never changes and is never fetched again.
C5_RobotsFetchedOnce ==
  /\ [](\A o \in Origins : robots_gets[o] <= 1)
  /\ [][\A o \in Origins :
          parsers[o] # Absent =>
            parsers'[o] = parsers[o] /\ robots_gets'[o] = robots_gets[o]]_vars

\* a call waits for the lock of an origin whose robots.txt another call is fetching
C5_Witness ==
  \E t1, t2 \in Calls :
    /\ pc[t1] = "robots_get" /\ pc[t2] = "wait_lock"
    /\ origin_from_url(url[t1]) = origin_from_url(url[t2])
    /\ robots_gets[origin_from_url(url[t1])] = 1

\* C6: a call whose URL the robots cache disallows returns error
\* "disallowed_by_robots" with no status, text or final URL, has sent no GET for
\* the URL, has not slept, and has not written the host's timestamp.
C6_RobotsDenialIsFree ==
  \A t \in Calls :
    pc[t] = "done" /\ allowed[t] = Some(FALSE) =>
      /\ result[t].kind = "returned"
      /\ result[t].error = Some("disallowed_by_robots")
      /\ result[t].status_code = None
      /\ result[t].text = None
      /\ result[t].final_url = None
      /\ gets[t] = 0
      /\ ~slept[t]
      /\ ~ts_written[t]

\* a call has ended on a robots denial while the host's timestamp is fresh from
\* another call
C6_Witness ==
  \E t \in Calls :
    /\ pc[t] = "done" /\ allowed[t] = Some(FALSE)
    /\ \E h \in Hosts : host_ts_age[h] = 0

\* C7: a call sends at most max_attempts GETs; it sends a further one only when
\* no response other than a 429 has come; the first response with another
\* status ends the call, which returns that status with error null.
C7_AttemptsBoundedAndOnlyRetriedOnErrorOr429 ==
  /\ [](\A t \in Calls : gets[t] <= max_attempts)
  /\ [][\A t \in Calls :
          /\ gets'[t] > gets[t] => response[t] \in {None, Some(429)}
          /\ gets'[t] > gets[t] /\ gets[t] >= 1 =>
               last_exc[t] # None \/ response[t] = Some(429)
          /\ response'[t] # response[t] /\ response'[t] \notin {None, Some(429)} =>
               /\ pc'[t] = "done"
               /\ result'[t].kind = "returned"
               /\ result'[t].status_code = response'[t]
               /\ result'[t].error = None]_vars

\* after a transport error, the last permitted attempt was answered 500 and the
\* call returned it
C7_Witness ==
  \E t \in Calls :
    /\ pc[t] = "done" /\ max_attempts >= 2 /\ gets[t] = max_attempts
    /\ last_exc[t] # None
    /\ result[t].status_code = Some(500) /\ result[t].error = None

\* the robots.txt GET of origin o failed, or was answered 404 or >= 500
RobotsUnavailable(o) ==
  /\ robots_outcome[o] # None
  /\ \/ robots_outcome[o][1] = None
     \/ /\ robots_outcome[o][1] # None
        /\ (robots_outcome[o][1][1] = 404 \/ robots_outcome[o][1][1] >= 500)

\* the robots.txt GET of origin o was answered 401 or 403
RobotsForbidden(o) ==
  /\ robots_outcome[o] # None
  /\ robots_outcome[o][1] # None
  /\ robots_outcome[o][1][1] \in {401, 403}

\* C8: once the robots.txt GET of an origin has failed or been answered 404 or
\* >= 500, allows() is true for every URL of the origin and every user agent.
C8_RobotsUnavailableAllowsAll ==
  \A o \in Origins :
    RobotsUnavailable(o) =>
      /\ parsers[o] # Absent
      /\ \A u \in Urls, ua \in Agents :
           origin_from_url(u) = o => allows_with(parsers[o], ua, u)
      /\ \A t \in Calls :
           origin_from_url(url[t]) = o /\ allowed[t] # None => allowed[t] = Some(TRUE)

\* robots.txt of an origin was answered 500 and a call to the origin got its page
C8_Witness ==
  \E o \in Origins, t \in Calls :
    /\ robots_outcome[o] = Some(Some(500))
    /\ origin_from_url(url[t]) = o
    /\ pc[t] = "done" /\ result[t].status_code = Some(200)

\* C9: once the robots.txt GET of an origin has been answered 401 or 403,
\* allows() is false for every URL of the origin and every user agent, and every
\* call for the origin ends as disallowed_by_robots.
C9_RobotsForbiddenDeniesAll ==
  \A o \in Origins :
    RobotsForbidden(o) =>
      /\ parsers[o] # Absent
      /\ \A u \in Urls, ua \in Agents :
           origin_from_url(u) = o => ~allows_with(parsers[o], ua, u)
      /\ \A t \in Calls :
           origin_from_url(url[t]) = o /\ pc[t] = "done" =>
             /\ result[t].kind = "returned"
             /\ result[t].error = Some("disallowed_by_robots")
             /\ gets[t] = 0

\* robots.txt of an origin was answered 403; a call that found the answer in
\* the cache has ended
C9_Witness ==
  \E o \in Origins, t \in Calls :
    /\ robots_outcome[o] = Some(Some(403))
    /\ robots_gets[o] = 1
    /\ origin_from_url(url[t]) = o
    /\ pc[t] = "done"
    /\ \E t2 \in Calls : t2 # t /\ pc[t2] = "returned"

(***************************************************************************)
(* Properties of _process_place.                                           *)
(***************************************************************************)
\* the parts of _process_place in the order the code has them
PhaseOrder ==
  <<"FETCH_HOMEPAGE", "EXTRACT_AND_CLASSIFY", "PROBE_CANDIDATES", "PROBE_FALLBACKS",
    "RESOLVE_HOMEPAGE_SIGNAL", "DONE">>

phase_rank(p) == CHOOSE i \in 1..Len(PhaseOrder) : PhaseOrder[i] = p

\* _process_place was called with max_job_links > 0
Capped == fetches > 0 /\ max_job_links > 0

\* C10: called with max_job_links > 0, the venue's pipeline goes through its
\* parts in order, never back; it awaits at most one fetch at a time; it makes
\* at most 1 + max_job_links + 5 fetches; it returns at most one ScrapeResult,
\* and exactly one when it is done; and, unless a fetch raised instead of
\* returning, it gets to DONE with that one ScrapeResult.
C10_VenuePipelineReachesDone ==
  /\ [][place_pc # "RAISED" /\ place_pc' # "RAISED" =>
         phase_rank(place_pc') >= phase_rank(place_pc)]_vars
  /\ [](outstanding <= 1)
  /\ [](Capped => fetches <= 1 + max_job_links + MaxFallbacks)
  /\ [](Len(results) <= 1 /\ (place_pc = "DONE" <=> Len(results) = 1))
  /\ (Capped ~> (fetch_raised \/ (place_pc = "DONE" /\ Len(results) = 1)))

\* the homepage fetch returned a FetchResult with its error set
HomepageError == homepage_result.kind = "returned" /\ homepage_result.error # None

\* C11: when the homepage fetch returns an error (a transport error after the
\* retries, or disallowed_by_robots), no other fetch is made for the venue, and
\* the ScrapeResult of the venue has hiring false, no job page, no keyword, and
\* an evidence snippet with the error's text in it.
C11_HomepageErrorEndsVenue ==
  HomepageError =>
    /\ fetches = 1
    /\ place_pc = "DONE" =>
         results = <<ScrapeResult(None, FALSE,
                                  Some(<<"Error fetching homepage: ", homepage_result.error[1]>>),
                                  None, None)>>

\* the last candidate or fallback fetched returned a page that was accepted
ProbeHit == job_result.kind = "returned" /\ ~Rejected(job_result)

\* what the accepted page says: its URL after redirects in canonical form, and
\* its classification
hit_url == canonicalize_url(job_result.final_url[1])
hit_detection == detect_hiring_signals(or_else(job_result.text, NoText))

\* C12: probing stops at the first page classified as hiring: after the hit no
\* candidate and no fallback is fetched, and the job page, the keyword and the
\* evidence of the venue's result are those of the hit.
C12_ProbingStopsAtFirstHit ==
  /\ [](ProbeHit =>
         /\ place_pc = "DONE"
         /\ outstanding = 0
         /\ Len(results) = 1
         /\ results[1].job_page_url = Some(hit_url)
         /\ results[1].matched_keyword = hit_detection[2]
         /\ results[1].evidence_snippet = hit_detection[3])
  /\ [][ProbeHit => fetches' = fetches /\ results' = results]_vars

\* the first of two candidates was a hit; the second was never fetched
C12_Witness ==
  /\ ProbeHit
  /\ place_pc = "DONE"
  /\ idx = 0
  /\ max_candidates = 2
  /\ fetches = 2

\* the step in which the fetch of a ranked candidate returns a page with a
\* status below 400 that is classified as hiring
CandidateHitStep ==
  /\ place_pc = "PROBE_CANDIDATES"
  /\ outstanding = 1
  /\ outstanding' = 0
  /\ job_result'.kind = "returned"
  /\ job_result'.error = None
  /\ or_else(job_result'.status_code, 0) < 400
  /\ detect_hiring_signals(or_else(job_result'.text, NoText))[1]

\* C13: when the page of a ranked candidate is fetched with a status below 400
\* and classified as hiring, the venue's ScrapeResult has hiring true, the
\* canonical form of the page's URL after redirects as job page, and the
\* keyword and evidence of the page's classification.
C13_CandidateHitBecomesResult ==
  [][CandidateHitStep =>
       results' = <<ScrapeResult(
                      Some(canonicalize_url(job_result'.final_url[1])),
                      TRUE,
                      detect_hiring_signals(job_result'.text[1])[3],
                      detect_hiring_signals(job_result'.text[1])[2],
                      job_result'.status_code)>>]_vars

\* the candidate /jobs was redirected to /jobs/ and its page says "jetzt
\* bewerben": the job page ends in /jobs and the keyword is "bewerben"
C13_Witness ==
  /\ place_pc = "DONE"
  /\ fetches = 2
  /\ ranked_candidates # <<>>
  /\ ranked_candidates[1] = Url(SiteRoot, "/jobs")
  /\ job_result.final_url = Some(Url(SiteRoot, "/jobs/"))
  /\ job_result.text = Some(TextHiring)
  /\ results = <<ScrapeResult(Some(Url(SiteRoot, "/jobs")), TRUE, Some(<<"", "jetzt bewerben">>),
                              Some("bewerben"), Some(200))>>

\* main.py 662-663: the paths of the model that end in a slash and are not "/"
has_trailing_slash(path) == path \in {"/jobs/", "/karriere/", "/careers/", "/about/"}

\* main.py 642-644: the fragment has one of JOB_PAGE_KEYWORDS in it
fragment_has_job_keyword(fragment) == fragment = "jobs"

\* scheme and host, no slash at the end of a path that is not the root, and no
\* fragment but one with a job keyword
is_absolute_canonical(u) ==
  /\ u.base # ""
  /\ ~has_trailing_slash(u.path)
  /\ u.frag # "" => fragment_has_job_keyword(u.frag)

\* C14: the job_page_url of every ScrapeResult of a venue pipeline, when there
\* is one, is an absolute canonical URL: it has scheme and host, no trailing
\* slash on a path that is not the root, and a fragment only if the fragment
\* carries a job keyword.
C14_JobPageUrlIsCanonical ==
  \A i \in 1..Len(results) :
    results[i].job_page_url # None => is_absolute_canonical(results[i].job_page_url[1])

(***************************************************************************)
(* Properties of a run over the venues.                                    *)
(***************************************************************************)
\* main has ended, with the output written or with the exception of gather
CliOver == run_mode = "cli" /\ (gather_state = "raised" \/ output_exists)

\* _execute_job has ended after the scan of a job that is not cancelled
WebDone ==
  /\ run_mode = "web"
  /\ producer_pc \in {"over", "raised"}
  /\ job_record.phase \in {"scanning", "complete"}
  /\ job_status \in {"running", "done"}

\* _process_place gave a hiring result with a job page for the venue
FoundJobPage(v) ==
  /\ venue_state[v].kind = "result"
  /\ venue_state[v].hiring
  /\ venue_state[v].job_page_url # None

\* the output has a row with the venue's job page
HasRowFor(v) ==
  \E i \in 1..Len(output_rows) :
    canonical_job_url(output_rows[i].job_page_url[1])
      = canonical_job_url(venue_state[v].job_page_url[1])

\* C15: a failure in the processing of one venue never aborts the run or takes
\* away what other venues gave: when a run of the command line or of the web
\* application is over, the job page of every venue that was found hiring is
\* in the output, whatever happened to the other venues.
C15_VenueFailureIsIsolated ==
  CliOver \/ WebDone => \A v \in Venues : FoundJobPage(v) => HasRowFor(v)

\* C16: once the cancellation flag of a job is set, no venue that had not
\* finished by then adds a row to the output (queued venues are dropped, a
\* venue in progress gives no result), and the rows written before stay.
C16_NoRowAfterCancel ==
  [][job_status' = "cancelled" => output_rows' = output_rows]_vars

(***************************************************************************)
(* Properties of the functions without state.                              *)
(***************************************************************************)
\* the record has a job_page_url with a canonical form
HasCanonical(r) ==
  r.job_page_url # None /\ canonicalize_url(r.job_page_url[1]) # EmptyUrl

\* two records have the same canonical job_page_url
SameJobPage(r, q) ==
  /\ HasCanonical(r)
  /\ HasCanonical(q)
  /\ canonicalize_url(r.job_page_url[1]) = canonicalize_url(q.job_page_url[1])

\* the first of the records of the list sharing r's job page whose website is
\* of the least length
FirstShortest(list, r) ==
  list[CHOOSE k \in 1..Len(list) :
         /\ SameJobPage(list[k], r)
         /\ \A j \in 1..Len(list) :
              SameJobPage(list[j], r) =>
                /\ list[k].place.website_len <= list[j].place.website_len
                /\ j < k => list[j].place.website_len > list[k].place.website_len]

WithoutJobPage(r) == r.job_page_url = None

C18_SanitizeCleansAndIsIdempotent ==
  fn = "_sanitize_url" =>
    /\ \A i \in 1..Len(ret) : ~is_control(ret[i]) /\ ret[i] # "sp"
    /\ ret # <<>> => ~is_whitespace(ret[1]) /\ ~is_whitespace(ret[Len(ret)])
    /\ sanitize_url(ret) = ret

\* a string with whitespace in front, a control character and a space inside
C18_Witness ==
  /\ fn = "_sanitize_url"
  /\ arg = <<"nbsp", "a", "nul", "sp">> \o <<"a">>
  /\ ret = <<"a", "%", "2", "0", "a">>

\* the path of the URL is not the root and ends in a slash
PathEndsInSlash(x) ==
  /\ x # <<>> /\ Head(x) = "O"
  /\ Len(parsed_path(x)) > 1
  /\ parsed_path(x)[Len(parsed_path(x))] = "/"

\* the URL without the last character of its path
without_path_slash(x) ==
  LET k == 1 + Len(parsed_path(x)) IN SubSeq(x, 1, k - 1) \o SubSeq(x, k + 1, Len(x))

\* C19: for every URL x, canonicalizing the canonical form of x changes
\* nothing; the canonical form has no fragment; and x with a trailing slash on
\* a path that is not the root, with or without a query, has the canonical
\* form of x without that slash.
C19_CanonicalizeIsIdempotentAndSlashBlind ==
  fn = "_canonicalize_url" =>
    /\ canonicalize_url_string(ret) = ret
    /\ \A i \in 1..Len(ret) : ret[i] # "#"
    /\ PathEndsInSlash(arg) => canonicalize_url_string(without_path_slash(arg)) = ret

\* the text has an about-us or meet-the-team indicator
HasTeamIndicator(text) ==
  \E indicator \in team_page_indicators : found_in(text, indicator)

\* the text has one of the strong hiring phrases: application, open
\* positions, hiring, careers, apply
HasStrongHiringPhrase(text) ==
  \E signal \in {"bewerb", "offene stellen", "stellenangebote", "hiring", "karriere",
                  "career", "apply"} : found_in(text, signal)

\* C20: a page whose text has an about-us or meet-the-team indicator and none
\* of the strong hiring phrases is classified as not hiring, with no keyword;
\* with one of those phrases (such as "careers") the team-page rule does not
\* reject it, and its classification is that of the keyword walk.
C20_TeamPageRule ==
  fn = "detect_hiring_signals" /\ HasTeamIndicator(arg) =>
    IF HasStrongHiringPhrase(arg) THEN ret = keyword_walk(arg)
    ELSE ret = <<FALSE, None, None>>

(***************************************************************************)
(* Properties of _rank_candidates.                                         *)
(***************************************************************************)
\* the position of a ranked link among the extracted candidates
DocumentIndex(candidates, r) ==
  CHOOSE i \in 1..Len(candidates) :
    candidates[i].url = r.url /\ candidates[i].text = r.text

\* the link is rejected whatever its text is
HardRejected(link) ==
  link.scheme \notin {"http", "https"} \/ link.path \in {"/jobs.pdf"}

\* C21: the ranked list has exactly the extracted candidates that score 1.5
\* or more, in descending order of score, candidates of one score in the order
\* of the document; no link of another scheme than http(s) and no link that
\* ends in an image or PDF extension is in it
C21_RankedListIsThresholdedAndSorted ==
  fn = "_rank_candidates" =>
    LET candidates == extract_candidate_links(arg[1])
        kept == {i \in 1..Len(candidates) :
                   score_candidate(candidates[i].url, candidates[i].text, arg[2])
                     >= SCORE_THRESHOLD}
    IN /\ Len(ret) = Cardinality(kept)
       /\ \A i \in kept : \E k \in 1..Len(ret) :
            ret[k] = CandidateLink(candidates[i].url, candidates[i].text,
                                   score_candidate(candidates[i].url, candidates[i].text,
                                                   arg[2]))
       /\ \A k \in 1..Len(ret) : \E i \in kept :
            ret[k].url = candidates[i].url /\ ret[k].text = candidates[i].text
       /\ \A j, k \in 1..Len(ret) :
            j < k => /\ ret[j].score >= ret[k].score
                     /\ ret[j].score = ret[k].score
                          => DocumentIndex(candidates, ret[j]) < DocumentIndex(candidates, ret[k])
       /\ \A a \in 1..Len(arg[1]) : \A k \in 1..Len(ret) :
            HardRejected(arg[1][a].href) => ret[k].url # canonicalize_link(arg[1][a].href)

\* a later link of a higher score comes first, two links of one score keep
\* their order, a PDF with the text "Jobs" and a link under the threshold are
\* left out
C21_Witness ==
  /\ fn = "_rank_candidates"
  /\ arg[1] = <<Anchor("https", "v", "/careers/", ""), Anchor("https", "w", "/x", "Careers"),
                Anchor("https", "jobs.v", "/x", "")>>
  /\ arg[2] = {}
  /\ ret = <<CandidateLink(Link("https", "jobs.v", "/x"), "", 13),
             CandidateLink(Link("https", "v", "/careers"), "", 3),
             CandidateLink(Link("https", "w", "/x"), "Careers", 3)>>

\* the step in which the signal of the homepage is resolved
ResolveStep == place_pc = "RESOLVE_HOMEPAGE_SIGNAL" /\ place_pc' = "DONE"

\* the keyword matched on the homepage is a vendor token
VendorSignal ==
  homepage_detection[2] # None /\ homepage_detection[2][1] \in VENDOR_KEYWORDS

\* one of the links extracted from the homepage points to a vendor host
VendorHostLinked ==
  \E i \in 1..Len(extract_job_links(homepage_html)) :
    has_vendor_host(extract_job_links(homepage_html)[i])

RequestedBy(loop) ==
  LET asked == SelectSeq(requested, LAMBDA q : q.loop = loop)
  IN [i \in 1..Len(asked) |-> asked[i].url]

\* the place of a URL in the ranked list
RankOf(u) == CHOOSE i \in 1..Len(ranked_candidates) : ranked_candidates[i] = u

\* the candidates are fetched in the order of the ranked list, which is that
\* of descending score, and no canonical URL is fetched twice
ProbedInRankOrder ==
  LET asked == RequestedBy("candidates") IN
  /\ \A i \in 1..Len(asked) : \E k \in 1..Len(ranked_candidates) :
       ranked_candidates[k] = asked[i]
  /\ \A i, j \in 1..Len(asked) :
       i < j => /\ RankOf(asked[i]) < RankOf(asked[j])
                /\ canonicalize_url(asked[i]) # canonicalize_url(asked[j])

UnusablePageStep ==
  /\ place_pc \in {"PROBE_CANDIDATES", "PROBE_FALLBACKS"}
  /\ outstanding = 1
  /\ outstanding' = 0
  /\ fetch_raised' = fetch_raised
  /\ job_result'.kind = "returned"
  /\ job_result'.error # None \/ or_else(job_result'.status_code, 0) >= 400

\* C24: a candidate or fallback whose fetch returned an error or a status of
\* 400 or more is not accepted as the hit, whatever its text says: the loop
\* goes on to its next item, and nothing of the venue's result is set.
C24_UnusablePageIsPassedOver ==
  [][UnusablePageStep =>
       /\ hit_vars' = hit_vars
       /\ http_status' = http_status
       /\ results' = results
       /\ place_pc' = place_pc
       /\ idx' = idx + 1]_vars

\* the first candidate returned 404 with a page that says "jetzt bewerben";
\* the loop is at its second candidate and nothing was accepted
C24_Witness ==
  /\ place_pc = "PROBE_CANDIDATES"
  /\ idx = 1
  /\ outstanding = 0
  /\ job_result.kind = "returned"
  /\ job_result.status_code = Some(404)
  /\ job_result.text = Some(TextHiring)
  /\ ~hiring_flag
  /\ job_page_url = None

\* the step in which a fallback path is asked for
FallbackFetchStep == Len(RequestedBy("fallbacks")') > Len(RequestedBy("fallbacks"))

\* the homepage or its links gave a reason to look for a job page
SiteSignal == homepage_detection[1] \/ ranked_candidates # <<>>

\* C25: a fallback path is fetched only if no candidate was accepted and the
\* homepage was classified as hiring or had at least one ranked candidate; for
\* a site without signal and without ranked candidate none is ever fetched.
C25_FallbacksNeedSignal ==
  /\ [][FallbackFetchStep => ~hiring_flag /\ SiteSignal]_vars
  /\ [](~SiteSignal => RequestedBy("fallbacks") = <<>>)
  /\ [][place_pc = "PROBE_CANDIDATES" /\ hiring_flag' =>
         RequestedBy("fallbacks")' = <<>> /\ place_pc' = "DONE"]_vars

\* a homepage without signal but with a ranked candidate: the candidate was
\* passed over and a fallback path was asked for
C25_Witness ==
  /\ ~homepage_detection[1]
  /\ Len(ranked_candidates) = 1
  /\ Len(RequestedBy("candidates")) = 1
  /\ Len(RequestedBy("fallbacks")) = 1
  /\ outstanding = 1

\* the place of a URL in a list it is in
PlaceIn(list, u) == CHOOSE k \in 1..Len(list) : list[k] = u

\* every well-known path is in the list under the root of the site and under
\* the base path, but for the homepage itself
BothRootAndBasePath(list) ==
  \A k \in 1..Len(FALLBACK_PATHS) :
    \A b \in {base_root(base_url), base_url.base} :
      LET u == canonicalize_url(Url(b, FALLBACK_PATHS[k]))
      IN u # canonicalize_url(base_url) => \E n \in 1..Len(list) : list[n] = u

\* C26: at most 5 fallback URLs are fetched for a venue; they are the first of
\* the list that has the well-known paths under the root of the site and
\* under the resolved base path; they are canonical and pairwise distinct,
\* none is the canonical URL of the homepage and none a candidate tried before.
C26_FallbacksAreFewAndNew ==
  LET asked == RequestedBy("fallbacks")
      list == iter_fallback_urls(base_url)
  IN asked # <<>> =>
       /\ Len(asked) <= 5
       /\ BothRootAndBasePath(list)
       /\ \A i \in 1..Len(asked) :
            /\ \E k \in 1..Min(5, Len(list)) : list[k] = asked[i]
            /\ \A k \in 1..(PlaceIn(list, asked[i]) - 1) :
                 list[k] \in tried_urls \/ \E j \in 1..(i - 1) : asked[j] = list[k]
            /\ canonicalize_url(asked[i]) = asked[i]
            /\ asked[i] # canonicalize_url(base_url)
            /\ \A j \in 1..Len(RequestedBy("candidates")) :
                 asked[i] # canonicalize_url(RequestedBy("candidates")[j])
            /\ \A j \in 1..Len(asked) : i # j => asked[i] # asked[j]

\* the homepage was redirected into /en, the candidate /jobs was tried: the
\* fallbacks fetched are /en/jobs, /karriere, /en/karriere and /karriere/jobs
C26_Witness ==
  /\ base_url = Url(SiteDir, "/")
  /\ RequestedBy("candidates") = <<Url(SiteRoot, "/jobs")>>
  /\ RequestedBy("fallbacks") =
       <<Url(SiteDir, "/jobs"), Url(SiteRoot, "/karriere"), Url(SiteDir, "/karriere"),
         Url(SiteRoot, "/karriere/jobs")>>
  /\ place_pc = "DONE"

\* the page the homepage's own signal points to: the first link with a job
\* keyword, or the homepage
SignalPage ==
  IF extract_job_links(homepage_html) # <<>>
  THEN extract_job_links(homepage_html)[1]
  ELSE base_url

\* C27: the signal of the homepage is resolved only if no candidate and no
\* fallback was a hit and the homepage was classified as hiring; for a keyword
\* that is no vendor token the venue is then reported hiring, the job page
\* being the first link with a job keyword extracted from the homepage, or the
\* homepage if there is none, with the keyword and snippet of the homepage.
C27_HomepageSignalIsLastResort ==
  /\ [](place_pc = "RESOLVE_HOMEPAGE_SIGNAL" =>
         /\ ~hiring_flag
         /\ ~ProbeHit
         /\ homepage_detection[1])
  /\ [][ResolveStep /\ ~VendorSignal =>
         /\ Len(results') = 1
         /\ results'[1].hiring
         /\ results'[1].job_page_url # None
         /\ canonicalize_url(results'[1].job_page_url[1]) = canonicalize_url(SignalPage)
         /\ results'[1].matched_keyword = homepage_detection[2]
         /\ results'[1].evidence_snippet = homepage_detection[3]]_vars

\* the homepage says "jetzt bewerben" and links to /jobs, which was fetched as
\* a fallback and passed over: /jobs is reported with the homepage's keyword
C27_Witness ==
  /\ place_pc = "DONE"
  /\ homepage_html.text = TextHiring
  /\ extract_job_links(homepage_html) = <<Url(SiteRoot, "/jobs")>>
  /\ Len(RequestedBy("fallbacks")) = 5
  /\ ~ProbeHit
  /\ results = <<ScrapeResult(Some(Url(SiteRoot, "/jobs")), TRUE, Some(<<"", "jetzt bewerben">>),
                              Some("bewerben"), Some(200))>>

(***************************************************************************)
(* Properties of the crawler's pacing and permits.                         *)
(***************************************************************************)
\* the step in which the attempt sequence of call t is over
CompletesAttempts(t) ==
  pc[t] \in {"sleep_jitter", "get", "sleep_retry"} /\ pc'[t] = "done"

\* the step in which call t leaves fetch because robots.txt forbids its URL
DeniedByRobots(t) ==
  pc[t] # "done" /\ pc'[t] = "done" /\ result'[t] = robots_denied_result(url[t])

\* C28: when the attempt sequence of a call is over, with a response or with a
\* transport error after the last attempt, the timestamp of its host is set
\* to the time of that step, and is set when the permit of the host is given
\* back: whenever a permit of a host becomes free after attempts, the host's
\* timestamp is the new one, so the call that takes the permit reads it.
C28_TimestampWrittenBeforeRelease ==
  [][(\A t \in Calls :
        CompletesAttempts(t) =>
          /\ ts_written'[t]
          /\ host_ts_age'[hostname(url[t])] = 0
          /\ host_semaphores'[hostname(url[t])] = host_semaphores[hostname(url[t])] + 1)
     /\ (\A h \in Hosts :
           host_semaphores'[h] > host_semaphores[h] =>
             host_ts_age'[h] = 0 \/ \E s \in Calls : DeniedByRobots(s))]_vars

\* a call is over with a transport error after its last attempt, the
\* timestamp of its host is new, and a call to the same host that waited for
\* a permit can take the one given back
C28_Witness ==
  \E t, s \in Calls :
    /\ pc[t] = "done"
    /\ result[t] = request_error_result(UrlAx, TransportError)
    /\ ts_written[t]
    /\ host_ts_age["a"] = 0
    /\ pc[s] = "wait_host"
    /\ hostname(url[s]) = "a"
    /\ host_semaphores["a"] = 1

\* the calls that have the permit of their host: they ask for robots.txt,
\* sleep before their GET, or wait for its answer
Busy ==
  {t \in Calls : pc[t] \in {"wait_lock", "robots_get", "sleep_pace", "sleep_jitter",
                             "get", "sleep_retry"}}

\* the calls that hold a global permit and queue for a permit of their host,
\* of which none is free
HostQueue ==
  {t \in Calls : pc[t] = "wait_host" /\ host_semaphores[hostname(url[t])] = 0}

\* C29: a fetch to one host does not wait for a permit held for fetches that
\* only queue for another host: while fewer than `concurrency` calls are past
\* the queue of their host, and the calls in a queue are for other hosts than
\* b, a call to b that comes in finds a global permit.
C29_UnrelatedHostsDoNotContend ==
  \A b \in Hosts :
    (/\ \E t \in Calls : pc[t] = "idle"
     /\ host_semaphores[b] > 0
     /\ HostQueue # {}
     /\ \A t \in HostQueue : hostname(url[t]) # b
     /\ Cardinality(Busy) < concurrency)
      => semaphore > 0

\* two calls to host a wait for the answer to their GET, a third one queues
\* for a permit of a, and the three of them hold all global permits
C29_Witness ==
  /\ concurrency = 3
  /\ semaphore = 0
  /\ Cardinality({t \in Calls : pc[t] = "get" /\ hostname(url[t]) = "a"}) = 2
  /\ Cardinality(HostQueue) = 1
  /\ host_semaphores["b"] = HostPermits
  /\ \E t \in Calls : pc[t] = "idle"

(***************************************************************************)
(* Properties of the weak keyword "stellen".                               *)
(***************************************************************************)
\* the context of the match has the compound, a capitalized "Stellen", or a
\* job-context word other than the match itself
StellenInJobContext(context) ==
  \/ "stellenangebote" \in Occurs[context]
  \/ has_capital_stellen(context)
  \/ \E indicator \in positive_indicators \ {"stelle"} : indicator \in Occurs[context]

\* C30: a page is classified as hiring by the weak keyword "stellen" only if
\* the context of the match has "stellenangebote" or a capitalized "Stellen"
\* (or another job-context word); a lower-case "wir stellen ... vor" with
\* nothing else around it does not make the page hiring.
C30_StellenNeedsNounContext ==
  fn = "detect_hiring_signals" /\ ret[2] = Some("stellen") =>
    StellenInJobContext(phrase_of(arg, "stellen"))

\* the page says "Unsere Stellen" and is classified by the keyword "stellen"
C30_Witness ==
  /\ fn = "detect_hiring_signals"
  /\ arg = {"Unsere Stellen"}
  /\ ret = <<TRUE, Some("stellen"), Some(<<"", "Unsere Stellen">>)>>

(***************************************************************************)
(* Properties of _score_candidate.                                         *)
(***************************************************************************)
\* the call of _score_candidate that was made gave a score
Scored == fn = "_score_candidate" /\ ret # MinusInfinity

\* the text or the URL of the candidate has a term of the blocklist
MatchesBlocklist ==
  in_text(arg[2], NAVIGATION_BLOCKLIST) \/ in_url(arg[1], NAVIGATION_BLOCKLIST)

\* the text or the URL of the candidate has a job keyword
HasJobKeyword ==
  in_text(arg[2], JOB_PAGE_KEYWORDS) \/ in_url(arg[1], JOB_PAGE_KEYWORDS)

\* the score the candidate has by the rules other than the blocklist rule
ScoreOfOtherRules ==
  score_candidate_at(arg[1], arg[2], arg[3], arg[4]) + navigation_penalty(arg[1], arg[2])

\* C31: the blocklist rule takes exactly 2.5 (5 half points) off the score of
\* a candidate whose text or URL has a blocklist term, once even if both
\* have one, and nothing when there is a job keyword in the text or the URL.
C31_BlocklistPenaltyOnce ==
  Scored =>
    ret = ScoreOfOtherRules - (IF MatchesBlocklist /\ ~HasJobKeyword THEN 5 ELSE 0)

\* a link of the site whose text alone has a blocklist term: 0 - 2.5
C31_Witness ==
  /\ Scored
  /\ arg[1] = Link("https", "v", "/x") /\ arg[4] = RankBaseUrl
  /\ in_text(arg[2], NAVIGATION_BLOCKLIST) /\ ~in_url(arg[1], NAVIGATION_BLOCKLIST)
  /\ ret = -5

\* the score the candidate has by the rules other than the self-link rule
ScoreApartFromSelfLink ==
  score_candidate_at(arg[1], arg[2], arg[3], arg[4]) + self_link_penalty(arg[1], arg[4])

\* C32: 1.0 (2 half points) is taken off the score of a candidate exactly
\* when its canonical URL is the canonical URL of the page that was scanned,
\* whatever trailing slash the final URL of the page has.
C32_SelfLinkPenaltyOnCanonicalUrl ==
  Scored =>
    ret = ScoreApartFromSelfLink - (IF arg[1] = canonicalize_link(arg[4]) THEN 2 ELSE 0)

\* the homepage https://v/ has a link "Careers" to itself: 2.5 - 1.0
C32_Witness ==
  /\ Scored
  /\ arg[1] = RankBaseUrl /\ arg[4] = RankBaseUrl /\ arg[2] = "Careers" /\ arg[3] = {}
  /\ ret = 3

(***************************************************************************)
(* Properties of the ScrapeResult of a venue.                              *)
(***************************************************************************)
\* C33: in every ScrapeResult of a venue pipeline hiring is true if and only
\* if job_page_url is not null, and when hiring is false matched_keyword is
\* null.
C33_HiringIffJobPageUrl ==
  \A i \in 1..Len(results) :
    /\ results[i].hiring <=> results[i].job_page_url # None
    /\ ~results[i].hiring => results[i].matched_keyword = None

\* a venue was found hiring on a page that was fetched for it
C33_Witness ==
  /\ place_pc = "DONE"
  /\ Len(results) = 1
  /\ results[1].hiring
  /\ results[1].job_page_url # None /\ results[1].matched_keyword # None
  /\ RequestedBy("candidates") # <<>>

\* the canonical URLs of the fetches the loops passed over
PassedOverUrls ==
  {canonicalize_url(requested[i].url) : i \in {j \in 1..Len(requested) : requested[j].passed_over}}

\* C34: a URL that was fetched for the venue and passed over (fetch error,
\* status of 400 or more, or a page that is not hiring) is not the
\* job_page_url of the venue's ScrapeResult.
C34_RejectedUrlIsNotReported ==
  \A i \in 1..Len(results) :
    results[i].job_page_url # None =>
      canonicalize_url(results[i].job_page_url[1]) \notin PassedOverUrls

\* the homepage's signal was resolved to its first job link, which the loop
\* over the candidates had fetched and passed over
C34_Witness ==
  /\ place_pc = "DONE"
  /\ Len(results) = 1 /\ results[1].hiring
  /\ homepage_detection[1] /\ Rejected(job_result)
  /\ extract_job_links(homepage_html) # <<>>
  /\ results[1].job_page_url = Some(canonicalize_url(extract_job_links(homepage_html)[1]))
  /\ \E i \in 1..Len(requested) :
       /\ requested[i].loop = "candidates" /\ requested[i].passed_over
       /\ canonicalize_url(requested[i].url) = results[1].job_page_url[1]

(***************************************************************************)
(* Properties of the retry loop and of the permits.                        *)
(***************************************************************************)
\* C35: a fetch whose last GET was answered returns the status of that
\* answer with no error, a 429 on the last attempt after a transport error
\* included; an error result is returned only when the last GET itself
\* failed.
C35_LastAnswerIsReturned ==
  \A t \in Calls :
    pc[t] = "done" /\ gets[t] >= 1 =>
      /\ answered[t] =>
            /\ result[t].kind = "returned"
            /\ result[t].status_code = response[t]
            /\ result[t].error = None
      /\ result[t].kind = "returned" /\ result[t].error # None => ~answered[t]

\* the first GET failed, the second and last was answered 429, and the call
\* is over
C35_Witness ==
  \E t \in Calls :
    /\ pc[t] = "done" /\ max_attempts = 2 /\ gets[t] = 2
    /\ last_exc[t] # None
    /\ answered[t] /\ response[t] = Some(429)

\* no fetch is running: every call is yet to be made or is over
NoFetchRunning == \A t \in Calls : pc[t] \in {"idle", "done", "returned"}

\* every permit and every robots lock is free
AllPermitsFree ==
  /\ semaphore = concurrency
  /\ \A h \in Hosts : host_semaphores[h] = HostPermits
  /\ \A o \in Origins : locks[o] = 0

\* C36: under any interleaving of concurrent calls every fetch comes to its
\* end, given that every GET and every sleep does; and whichever way a fetch
\* ends (denied by robots.txt, answered, out of attempts), the permits it
\* took are given back: when no fetch is running all permits are free.
C36_FetchesEndAndReleasePermits ==
  /\ [](NoFetchRunning => AllPermitsFree)
  /\ \A t \in HostTasks : (pc[t] # "idle") ~> (pc[t] = "returned")
  /\ <>(\A t \in HostTasks : pc[t] = "returned")

\* the calls are all over, with fewer global permits than calls, after
\* transport errors, with robots.txt forbidden at one origin and missing at
\* another
C36_Witness ==
  /\ concurrency = NumHostTasks - 1
  /\ \A t \in HostTasks : pc[t] = "returned"
  /\ AllPermitsFree
  /\ faults = MaxFaults
  /\ \E o \in Origins : RobotsForbidden(o)
  /\ \E o \in Origins : RobotsUnavailable(o)

(***************************************************************************)
(* Properties of a job of the web application.                             *)
(***************************************************************************)
\* C37: the cancellation of a web job is sticky: under any interleaving of
\* the cancel request with the job's thread, once cancel has set the status
\* of the job to "cancelled" no step overwrites it with "running", "done" or
\* "error".
C37_CancelledStaysCancelled ==
  [][job_status = "cancelled" => job_status' = "cancelled"]_vars

\* the thread of a job that was cancelled has ended and left the status as
\* cancel set it
C37_Witness ==
  /\ run_mode = "web"
  /\ producer_pc = "over"
  /\ job_status = "cancelled"

\* _run_job_sync has ended, by a return or by an exception
ThreadEnded == run_mode = "web" /\ producer_pc \in {"over", "raised"}

\* the scan has run to its end: the queue is joined, the workers are awaited
ScanFinished ==
  /\ ThreadEnded
  /\ job_record.phase \in {"scanning", "complete"}
  /\ sentinels_put = num_workers
  /\ \A w \in 1..num_workers : worker_pc[w] = "returned"

\* C38: every web job that got its slot comes to a terminal status: when its
\* thread has ended, a job still in JOBS is done, cancelled or in error, and
\* one that is not cancelled and whose discovery and scan went through is
\* done, in phase "complete"; no job stays "running" after its scan.
C38_JobEndsInTerminalStatus ==
  ThreadEnded /\ job_known =>
    /\ job_status \in {"done", "cancelled", "error"}
    /\ ScanFinished /\ job_status # "cancelled" =>
         job_status = "done" /\ job_record.phase = "complete"

\* the scan of a job that nobody cancelled is over, with a row written
C38_Witness ==
  /\ ScanFinished
  /\ job_known
  /\ job_status # "cancelled"
  /\ rows # <<>>

(***************************************************************************)
(* Properties of the worker pool of a web job.                             *)
(***************************************************************************)
\* the workers of the pool
Pool == 1..num_workers

\* the None items in the queue
SentinelsQueued == Cardinality({k \in 1..Len(queue) : queue[k] = 0})

\* the places _process_place was awaited for, to its end
PlacesProcessed == {v \in Places : venue_state[v].kind \in {"result", "raised"}}

\* the producer has put what it had to, the queue is joined, the workers
\* have returned
PoolShutDown ==
  /\ producer_pc \in {"over", "raised"}
  /\ sentinels_put = num_workers
  /\ queue = <<>>
  /\ \A w \in Pool : worker_pc[w] = "returned"

\* every None taken ended one worker, and no worker is inside a place
PoolAtRest ==
  /\ Cardinality({w \in Pool : worker_pc[w] = "returned"}) + SentinelsQueued
       = sentinels_put
  /\ PoolShutDown =>
       /\ \A v \in Places : venue_state[v].kind # "running"
       /\ \A v \in 1..(next_place - 1) :
            venue_state[v].kind \in {"result", "raised", "dropped"}
  /\ run_mode = "web" => job_record.processed = Cardinality(PlacesProcessed)

\* a place is dropped only once the job is cancelled
DroppedOnlyWhenCancelled ==
  \A v \in Places :
    venue_state[v].kind # "dropped" /\ venue_state'[v].kind = "dropped" =>
      job_status = "cancelled"

\* C39: the worker pool of a web scan always shuts down: for the numbers of
\* places and of workers of the model and any moment of cancellation, once
\* the workers are started the producer puts the places (or stops on cancel)
\* and one None per worker, every worker takes exactly one None and returns,
\* the queue is joined empty, and every place taken from the queue before
\* the cancellation is processed exactly once.
C39_PoolShutsDown ==
  /\ [](PoolAtRest)
  /\ [][DroppedOnlyWhenCancelled]_vars
  /\ (run_mode = "web" /\ producer_pc = "put") ~> PoolShutDown

\* the pool of one worker has shut down on a job cancelled during the scan,
\* which listed more places than the queue holds: places were processed,
\* places were dropped
C39_Witness ==
  /\ PoolShutDown
  /\ job_status = "cancelled"
  /\ job_record.total > queue_maxsize
  /\ \E v \in Places : venue_state[v].kind = "dropped"
  /\ \E v \in Places : venue_state[v].kind = "result"

(***************************************************************************)
(* Properties of the output a web job streams.                             *)
(***************************************************************************)
\* the row is that of a result found hiring, with a job page
RowOfHiringResult(row) ==
  /\ row.job_page_url # None
  /\ \E v \in Places : FoundJobPage(v) /\ Row(venue_state[v]) = row

\* C40: in the output a web job streams, under any interleaving of the
\* workers, no two rows written have the same canonical job_page_url, every
\* row is that of a result with hiring true and a job_page_url, and the
\* found counter of the job is the number of rows written, never above
\* processed, which is never above total.
C40_StreamedRowsAreDistinctAndCounted ==
  run_mode = "web" =>
    /\ \A i, j \in 1..Len(rows) :
         i # j => canonical_job_url(rows[i].job_page_url[1])
                    # canonical_job_url(rows[j].job_page_url[1])
    /\ \A i \in 1..Len(rows) : RowOfHiringResult(rows[i])
    /\ job_record.found = Len(rows)
    /\ job_record.found <= job_record.processed
    /\ job_record.processed <= job_record.total

\* two workers found two venues hiring, at one job page written in two ways:
\* one row, two places processed
C40_Witness ==
  /\ run_mode = "web"
  /\ num_workers = 2
  /\ \A v \in Venues : FoundJobPage(v)
  /\ venue_state[1].job_page_url # venue_state[2].job_page_url
  /\ Len(rows) = 1
  /\ job_record.found = 1
  /\ job_record.processed = 2

====
